---- MODULE Spec2Model ----
(***************************************************************************)
(* A model of the AudioEngine of audiofx-processor: the live session       *)
(* (init / updateSettings / close), the feedback safety monitor            *)
(* (startSafetyMonitoring / checkLevel), the offline renderer              *)
(* (renderOffline) and the part of the control layer (App) that drives     *)
(* them.                                                                   *)
(*                                                                         *)
(* The repository holds three revisions of the engine.  The variable       *)
(* `build` says which one runs:                                            *)
(*   "safety"  src/unnamed/part_001 lines 1-362   (master gain, limiter)   *)
(*   "multi"   src/unnamed/part_001 lines 365-727 (three reverb variants)  *)
(*   "basic"   src/services/audioEngine.ts        (bypassGain setting)     *)
(*                                                                         *)
(* Conventions.  Gains and peaks are in hundredths (1.5 is 150).  A graph  *)
(* node is represented by the id of the AudioContext that created it, so   *)
(* a node reference is stale exactly when it differs from `ctx`.  Every    *)
(* await on a browser promise (ctx.close, setSinkId, addModule,            *)
(* arrayBuffer, decodeAudioData, getUserMedia, resume, startRendering) is  *)
(* a point where other handlers may run; an await on an already settled    *)
(* promise is not.  The MediaRecorder of the "multi" revision              *)
(* (startRecording / stopRecording) is not modelled.                       *)
(***************************************************************************)
EXTENDS Integers, FiniteSets, Sequences, TLC

\* ---------------------------------------------------------------- bounds
\* AudioContexts the live engine may create in one behaviour.
MaxSessions == 2
\* renderOffline calls in one behaviour.
MaxRenders == 2
\* Samples (frames times channels) in a buffer given to bufferToWav.
MaxSamples == 4
\* Ticks of audio time followed after one setTargetAtTime.
MaxTicks == 60
\* setTargetAtTime calls on the followed gain in one behaviour.
MaxSteps == 2
\* The base length of the shortest delay line of the per-sample kernel.
BaseLen == 2
\* Samples the per-sample kernel processes in one behaviour.
MaxLineSamples == 14
\* Samples the two compared kernels process in one behaviour.
MaxLfoSamples == 5

\* ------------------------------------------------------------- constants
\* A field holding null.
NULL == 0
\* checkLevel's threshold, 1.5, in hundredths.
SafetyThreshold == 150
\* The default value of a GainNode's gain, 1.0, in hundredths.
DefaultGain == 100
\* The passthrough level of the bypass path in the "safety" revision.
BypassUnity == 100

Builds == {"safety", "multi", "basic"}

\* The fields of the engine that hold graph nodes.  "dryGain" is
\* wetPathDryGainNode in the "safety" and "basic" revisions and dryGainNode in
\* the "multi" revision.
NodeFields == {"wetGainNode", "dryGain", "bypassGainNode", "masterGainNode",
               "reverbNode", "lowCutFilter", "highCutFilter",
               "analyserInput", "analyserOutput"}

\* The gain parameters whose automation target the model tracks.
GainNames == {"wet", "dry", "bypass", "master"}

\* Values the control layer gives the settings (hundredths).
WetValues == {15, 60}
DryValues == {0, 100}
MasterValues == {50, 100}
BypassGainValues == {100, 150}

\* Durations are in units of 1/10000 s: Frames(d, rate) is d * rate as a
\* number of sample frames, rounded up as Math.ceil does (the rates are
\* multiples of 100, which keeps the product within TLC's integers).
Frames(d, rate) == (d * (rate \div 100) + 99) \div 100
\* Sample rates of the device a default AudioContext is opened on.
SampleRates == {44100, 48000}
\* renderOffline's guard time after the tail, 0.5 s.
RenderGuard == 5000
\* Durations of the files given to renderOffline (10 ms and 3.0 s; whole
\* numbers of frames at both sample rates).
InputDurations == {100, 30000}
\* Values of settings.reverbDuration given to renderOffline (2.0 s, 1.2346 s).
ReverbDurations == {20000, 12346}

\* Peaks a window of the post-master tap may show (hundredths).
Peaks == {0, 140, 150, 151, 160}

AudioSettings == [bypassEffects : BOOLEAN, wetGain : WetValues,
                  wetPathDryGain : DryValues, masterGain : MasterValues,
                  bypassGain : BypassGainValues]

\* App's initial settings (wetGain 0.15, wetPathDryGain 1.0, bypassGain 1.0).
DefaultSettings == [bypassEffects |-> FALSE, wetGain |-> 15,
                    wetPathDryGain |-> 100, masterGain |-> 100,
                    bypassGain |-> 100]

VARIABLES
  build,               \* which revision of the engine runs
  ctx,                 \* this.ctx: NULL or the id of the live AudioContext
  stream,              \* this.stream: NULL or the id of the capture stream
  isInitializing,      \* this.isInitializing
  source,              \* this.source: NULL or the id of the context it lives in
  graph,               \* the node fields: NodeFields -> NULL or a context id
  target,              \* automation target of each gain: GainNames -> value
  masterValue,         \* masterGainNode.gain.value
  safetyTimer,         \* this.safetyTimer: NULL or the handle of a poll loop
  onAutoMuteTriggered, \* whether the control layer registered the callback
  rafPending,          \* poll loops with a frame callback scheduled
  openCtxs,            \* ids of the AudioContexts that are not closed
  openStreams,         \* ids of the capture streams whose tracks are live
  nextId,              \* the next fresh context / stream id
  initPc,              \* where the running init() is suspended
  initFile,            \* init's previewFile argument is given
  initSink,            \* init's outputDeviceId argument names a device
  closePc,             \* where a close() called by the control layer is
  settings,            \* App's settings state
  isProcessing,        \* settings.isProcessing
  notified,            \* onAutoMuteTriggered calls since the last init()
  tripped,             \* the limiter tripped since the last init()
  polled,              \* a poll ran after the trip, before the next init()
  staleTouched,        \* updateSettings or a poll used a node of a past session
  initOutcome,         \* how the last init() ended: "none", "ok", "error"
  lifecycle,           \* "never" opened, "active", "closing", "closed", or
                       \* "reclosed": close() has run on the closed engine
  closeError,          \* a close() call rejected
  bypassEdit,          \* dry/wet "edited" under bypass, then "restored"
  renders,             \* renderOffline calls so far
  renderPc,            \* where the running renderOffline() is suspended
  renderTemp,          \* its tempCtx: NULL or the id of that context
  renderIn,            \* its input: the file's duration and settings.reverbDuration
  renderRate,          \* sourceBuffer.sampleRate
  renderLen,           \* the length given to its OfflineAudioContext
  renderOut,           \* how the last renderOffline() ended: "none", "ok", "error"
  offlineSettings,     \* the settings given to renderOffline when it builds its graph
  offlineGraph,        \* the graph renderOffline built: its connections and gain values
  wavBuffer,           \* the AudioBuffer given to bufferToWav
  wavBytes,            \* the bytes of the Blob bufferToWav returned, << >> before it ran
  kernelSettings,      \* the kernel-related settings given to updateSettings or renderOffline
  kernelFs,            \* globalThis.sampleRate of the kernel's context
  kernelVia,           \* who set the kernel's parameters: none, updateSettings, renderOffline
  kernelParams,        \* the parameter values process() works with, and the wet gain node's gain
  appSettings,         \* App's settings state (useState)
  aiPresets,           \* App's aiPresets state: the settings of the suggestions held
  appPrev,             \* the settings before the last applyPreset
  appliedPreset,       \* the argument of the last applyPreset
  smoothTarget,        \* the target of the gain's last setTargetAtTime, in millionths
  smoothStart,         \* the gain's value when that setTargetAtTime began
  smoothTicks,         \* tenths of the time constant elapsed since then
  smoothResidual,      \* e^(-elapsed/timeConstant), in millionths
  smoothValue,         \* the gain's value now, in millionths
  smoothPrev,          \* the gain's value one tick earlier
  smoothSteps,         \* how many setTargetAtTime calls were made
  tankMode,            \* parameters.mode[0] of the running kernel
  briPtr,              \* briPtrsL[j], briPtrsR[j]: Int32, in runs of 2^28 samples
  tankHeld,            \* the variants whose buffers hold an earlier tail
  tankOut,             \* the kernel's last output: silent, finite or nan
  lineMode,            \* parameters.mode[0] of the per-sample kernel
  lineSize,            \* parameters.briSize[0], in hundredths
  lineN,               \* samples processed so far
  linePtrs,            \* the stored cursor of every delay line of every variant
  lineWrites,          \* how many samples each variant has written to its buffers
  lfoParams,           \* lexSpin and lexWander of each of the two compared kernels
  lfoState,            \* lfo, cursors, buffers and last output of each of the two kernels
  lfoN,                \* samples the two kernels have processed
  jobPc,               \* where each of two overlapping renderOffline calls is suspended
  jobTemp,             \* the tempCtx of each call: NULL or the id of that context
  tempOpen,            \* the temporary contexts that are open
  tempCount,           \* the temporary contexts created so far
  jobCalls             \* the renderOffline calls made so far

engineVars == <<ctx, stream, isInitializing, source, graph,
                target, masterValue, safetyTimer, rafPending, openCtxs,
                openStreams>>

\* The state of the offline graph, the encoder, the smoother and the kernel.
graphVars == <<offlineSettings, offlineGraph>>
wavVars == <<wavBuffer, wavBytes>>
kernelVars == <<kernelSettings, kernelFs, kernelVia, kernelParams>>
appVars == <<appSettings, aiPresets, appPrev, appliedPreset>>
smoothVars == <<smoothTarget, smoothStart, smoothTicks, smoothResidual,
                smoothValue, smoothPrev, smoothSteps>>
tankVars == <<tankMode, briPtr, tankHeld, tankOut>>
lineVars == <<lineMode, lineSize, lineN, linePtrs, lineWrites>>
lfoVars == <<lfoParams, lfoState, lfoN>>
jobVars == <<jobPc, jobTemp, tempOpen, tempCount, jobCalls>>
dspVars ==
  <<graphVars, wavVars, kernelVars, appVars, smoothVars,
    tankVars, lineVars, lfoVars, jobVars>>

\* The state of the live engine and of the control layer.
liveVars == <<build, engineVars, onAutoMuteTriggered, nextId, initPc, initFile,
              initSink, closePc, settings, isProcessing, notified, tripped,
              polled, staleTouched, initOutcome, lifecycle, closeError,
              bypassEdit>>

vars == <<build, ctx, stream, isInitializing, source, graph,
          target, masterValue, safetyTimer, onAutoMuteTriggered, rafPending,
          openCtxs, openStreams, nextId, initPc, initFile, initSink, closePc,
          settings, isProcessing, notified, tripped, polled, staleTouched,
          initOutcome, lifecycle, closeError, bypassEdit, renders, renderPc,
          renderTemp, renderIn, renderRate, renderLen, renderOut, dspVars>>

renderVars == <<renders, renderPc, renderTemp, renderIn, renderRate,
                renderLen, renderOut>>

NoGraph == [f \in NodeFields |-> NULL]
NoOfflineGraph == [edges |-> {}, gain |-> <<>>]
NoBuffer == [numberOfChannels |-> 0, length |-> 0, sampleRate |-> 0,
             data |-> << >>]
NoInput == [duration |-> 0, reverbDuration |-> 0]
DefaultTargets == [g \in GainNames |-> DefaultGain]

\* The engine after construction, with no render under way.
EngineInit ==
  /\ build \in Builds
  /\ ctx = NULL
  /\ stream = NULL
  /\ isInitializing = FALSE
  /\ source = NULL
  /\ graph = NoGraph
  /\ target = DefaultTargets
  /\ masterValue = DefaultGain
  /\ safetyTimer = NULL
  /\ onAutoMuteTriggered = FALSE
  /\ rafPending = {}
  /\ openCtxs = {}
  /\ openStreams = {}
  /\ nextId = 1
  /\ initPc = "idle"
  /\ initFile = FALSE
  /\ initSink = FALSE
  /\ closePc = "idle"
  /\ settings = DefaultSettings
  /\ isProcessing = FALSE
  /\ notified = 0
  /\ tripped = FALSE
  /\ polled = FALSE
  /\ staleTouched = FALSE
  /\ initOutcome = "none"
  /\ lifecycle = "never"
  /\ closeError = FALSE
  /\ bypassEdit = "none"
  /\ renders = 0
  /\ renderPc = "idle"
  /\ renderTemp = NULL
  /\ renderIn = NoInput
  /\ renderRate = 0
  /\ renderLen = 0
  /\ renderOut = "none"

\* Nothing rendered, encoded, smoothed or processed yet.
\* App's initial values.
DefaultKernelSettings ==
  [algoMode |-> "lexicon", reverbDuration |-> 150, reverbPreDelay |-> 5,
   reverbDecay |-> 220, briSize |-> 100, briDensity |-> 75, wetGain |-> 15]

NoParams == [mode |-> 0, rt60 |-> 0, preDelay |-> 0, damping |-> 0,
             size |-> 0, density |-> 0, wetGain |-> 0]

GraphIdle ==
  /\ offlineSettings = DefaultSettings
  /\ offlineGraph = NoOfflineGraph

WavIdle ==
  /\ wavBuffer = NoBuffer
  /\ wavBytes = << >>

KernelIdle ==
  /\ kernelSettings = DefaultKernelSettings
  /\ kernelFs = 0
  /\ kernelVia = "none"
  /\ kernelParams = NoParams

AppIdle ==
  /\ appSettings = DefaultSettings
  /\ aiPresets = << >>
  /\ appPrev = DefaultSettings
  /\ appliedPreset = << >>

\* The bypass gain at rest with the effect chain in: value 0, nothing pending.
SmoothIdle ==
  /\ smoothTarget = 0
  /\ smoothStart = 0
  /\ smoothTicks = 0
  /\ smoothResidual = 0
  /\ smoothValue = 0
  /\ smoothPrev = 0
  /\ smoothSteps = 0

\* The kernel as constructed: mode 0, zeroed buffers and pointers.
TankIdle ==
  /\ tankMode = 0
  /\ briPtr = 0
  /\ tankHeld = {}
  /\ tankOut = "silent"

\* The lines of a variant.
Lines == {1, 2}

\* The length lexLen[j], tcLen[j], delayTimes[j] or briBase[j] of line j.
LineLen(j) == BaseLen + j - 1

\* new Float32Array(l * 6) for a bricasti comb, new Float32Array(l) otherwise.
BufferLen(v, j) == IF v = "bricasti" THEN LineLen(j) * 6 ELSE LineLen(j)

AllVariants == {"lexicon", "bricasti", "tcelectronic", "fdn4"}

\* new Int32Array(n): every cursor 0.
NoPtrs == [v \in AllVariants |-> [j \in Lines |-> 0]]

NoWrites == [v \in AllVariants |-> 0]

\* The kernel as constructed, before its first sample.
LineIdle ==
  /\ lineMode = 0
  /\ lineSize = 100
  /\ lineN = 0
  /\ linePtrs = NoPtrs
  /\ lineWrites = NoWrites

\* The two kernels that are compared.
Runs == {1, 2}

\* The four lexicon lines and their lengths lexLen[j], reduced.
LexLines == 1 .. 4
LexLen(j) == BaseLen + j - 1

NoLfoParams == [r \in Runs |-> [spin |-> 0, wander |-> 0]]

\* The lexicon state after the constructor: zeroed buffers and cursors.
NoLfoState ==
  [r \in Runs |->
     [lfo  |-> 0,
      mod  |-> 0,
      ptrs |-> [j \in LexLines |-> 0],
      bufs |-> [j \in LexLines |-> [k \in 1 .. LexLen(j) |-> 0]],
      out  |-> <<0, 0>>]]

\* The two compared kernels before their first sample.
LfoIdle ==
  /\ lfoParams = NoLfoParams
  /\ lfoState = NoLfoState
  /\ lfoN = 0

\* Two renderOffline calls that may overlap.
Jobs == {1, 2}

\* No call is suspended anywhere.
NoJobPc == [j \in Jobs |-> "idle"]

\* No call holds a temporary context.
NoJobTemp == [j \in Jobs |-> NULL]

\* No renderOffline call is in flight in either slot.
JobIdle ==
  /\ jobPc = NoJobPc
  /\ jobTemp = NoJobTemp
  /\ tempOpen = {}
  /\ tempCount = 0
  /\ jobCalls = 0

DspIdle ==
  GraphIdle /\ WavIdle /\ KernelIdle /\ AppIdle /\ SmoothIdle
  /\ TankIdle /\ LineIdle /\ LfoIdle /\ JobIdle

Init == EngineInit /\ DspIdle

\* ------------------------------------------------------- updateSettings
\* updateSettings returns at once without a context (and, in the "multi"
\* revision, without a kernel node).
UpdateRuns(c, g) ==
  /\ c # NULL
  /\ (build = "multi" => g["reverbNode"] # NULL)

\* The target updateSettings gives the bypass gain when bypass is set.
BypassTarget(s) ==
  IF build = "basic" THEN s.bypassGain ELSE BypassUnity

\* An updateSettings that restores the wet gain to the initial setting.
WetTargetInitial(s) ==
  IF build # "multi" /\ s.bypassEffects THEN 0 ELSE DefaultSettings.wetGain

\* The targets updateSettings gives the wet and dry gains.
WetTarget(s) ==
  IF build # "multi" /\ s.bypassEffects THEN 0 ELSE s.wetGain

DryTarget(s) ==
  IF build # "multi" /\ s.bypassEffects THEN 0 ELSE s.wetPathDryGain

\* The targets after updateSettings(s) on graph g with targets t: each
\* setTargetAtTime is guarded by the presence of its node.
TargetsAfterUpdate(s, g, t) ==
  [n \in GainNames |->
     CASE n = "master" ->
            IF build # "basic" /\ g["masterGainNode"] # NULL
              THEN s.masterGain ELSE t[n]
       [] n = "wet" ->
            IF g["wetGainNode"] # NULL THEN WetTarget(s) ELSE t[n]
       [] n = "dry" ->
            IF g["dryGain"] # NULL THEN DryTarget(s) ELSE t[n]
       [] n = "bypass" ->
            IF build # "multi" /\ g["bypassGainNode"] # NULL
              THEN (IF s.bypassEffects THEN BypassTarget(s) ELSE 0)
              ELSE t[n]]

\* The node fields updateSettings calls a method on.
UpdateTouches ==
  CASE build = "safety" -> {"lowCutFilter", "highCutFilter", "reverbNode",
                            "masterGainNode", "wetGainNode", "dryGain",
                            "bypassGainNode"}
    [] build = "multi"  -> {"lowCutFilter", "highCutFilter", "reverbNode",
                            "masterGainNode", "wetGainNode", "dryGain"}
    [] build = "basic"  -> {"lowCutFilter", "highCutFilter", "reverbNode",
                            "wetGainNode", "dryGain", "bypassGainNode"}

\* updateSettings on context c and graph g reaches a node that context c did
\* not create.
TouchesStale(c, g) ==
  \E f \in UpdateTouches : g[f] # NULL /\ g[f] # c

\* The engine's part of updateSettings(s), on context c and graph g, from
\* targets t.
UpdateSettings(s, c, g, t) ==
  IF UpdateRuns(c, g)
    THEN /\ target' = TargetsAfterUpdate(s, g, t)
         /\ staleTouched' = (staleTouched \/ TouchesStale(c, g))
    ELSE /\ target' = t
         /\ staleTouched' = staleTouched

\* App: a slider or the BYPASS button stores new settings; the settings
\* effect then calls updateSettings when isProcessing is set.
ApplySettings(s, edit) ==
  /\ settings' = s
  /\ bypassEdit' = edit
  /\ IF isProcessing
       THEN UpdateSettings(s, ctx, graph, target)
       ELSE UNCHANGED <<target, staleTouched>>
  /\ UNCHANGED <<dspVars, renderVars, build, lifecycle, closeError, ctx, stream, isInitializing,
                 source, graph, masterValue, safetyTimer, onAutoMuteTriggered,
                 rafPending, openCtxs, openStreams, nextId, initPc, initFile,
                 initSink, closePc, isProcessing, notified, tripped, polled,
                 initOutcome>>

\* Bookkeeping: a dry or wet slider moved while bypass is on and the engine
\* is processing.
EditUnderBypass ==
  IF settings.bypassEffects /\ isProcessing THEN "edited" ELSE "none"

\* The BYPASS button (disabled unless isProcessing).
ToggleBypass ==
  /\ isProcessing
  /\ ApplySettings([settings EXCEPT !.bypassEffects = ~settings.bypassEffects],
                   IF settings.bypassEffects /\ bypassEdit = "edited"
                     THEN "restored" ELSE "none")

\* The sliders.  Only the "basic" revision has a bypass-gain setting, and only
\* the other two have a master-gain setting.
SetWetGain ==
  \E v \in WetValues \ {settings.wetGain} :
    ApplySettings([settings EXCEPT !.wetGain = v], EditUnderBypass)

SetDryGain ==
  \E v \in DryValues \ {settings.wetPathDryGain} :
    ApplySettings([settings EXCEPT !.wetPathDryGain = v], EditUnderBypass)

SetMasterGain ==
  /\ build # "basic"
  /\ \E v \in MasterValues \ {settings.masterGain} :
       ApplySettings([settings EXCEPT !.masterGain = v], bypassEdit)

SetBypassGain ==
  /\ build = "basic"
  /\ \E v \in BypassGainValues \ {settings.bypassGain} :
       ApplySettings([settings EXCEPT !.bypassGain = v], bypassEdit)

\* setTargetAtTime: the master gain's value reaches its target.
AudioParamTick ==
  /\ graph["masterGainNode"] # NULL
  /\ masterValue # target["master"]
  /\ masterValue' = target["master"]
  /\ UNCHANGED <<dspVars, renderVars, build, lifecycle, closeError, bypassEdit, ctx, stream, isInitializing, source,
                 graph, target, safetyTimer, onAutoMuteTriggered, rafPending,
                 openCtxs, openStreams, nextId, initPc, initFile, initSink,
                 closePc, settings, isProcessing, notified, tripped, polled,
                 staleTouched, initOutcome>>

\* ---------------------------------------------------------------- close
\* The node fields close() sets to null.
CloseNulls ==
  CASE build = "safety" -> {"reverbNode", "masterGainNode", "analyserInput",
                            "analyserOutput"}
    [] build = "multi"  -> {}
    [] build = "basic"  -> {"reverbNode", "analyserInput", "analyserOutput"}

GraphAfterClose(g) ==
  [f \in NodeFields |-> IF f \in CloseNulls THEN NULL ELSE g[f]]

\* this.stream after close(): the "multi" revision stops the tracks and keeps
\* the reference.
StreamAfterClose(st) ==
  IF build = "multi" THEN st ELSE NULL

\* close() up to its await: cancelAnimationFrame(this.safetyTimer).
PendingAfterCancel ==
  IF build = "safety" /\ safetyTimer # NULL
    THEN rafPending \ {safetyTimer} ELSE rafPending

\* A close() without the test.
CloseGuardMissing == TRUE

\* close()'s test `if (this.ctx)`.
CloseGuard == ctx # NULL

\* close() awaits ctx.close() when there is a context that is still open; a
\* closed context rejects at once and the rejection is swallowed.
CloseAwaits == CloseGuard /\ ctx \in openCtxs

\* close() rejects when it dereferences a null context outside a try block:
\* `this.ctx.state` in the "multi" revision.  The other two revisions call
\* ctx.close() inside try/catch.
CloseThrows == CloseGuard /\ ctx = NULL /\ build = "multi"

\* The engine has been closed and not opened since.
Closed == {"closed", "reclosed"}

\* close() called by the control layer (toggleProcessing, handleFileChange),
\* up to its await, or to its end when it does not await.  When close()
\* returns the control layer clears isProcessing.
CloseCall ==
  /\ closePc = "idle"
  /\ rafPending' = PendingAfterCancel
  /\ closeError' = (closeError \/ CloseThrows)
  /\ IF CloseAwaits
       THEN /\ closePc' = IF initPc = "closing" THEN "awaitCtxAfterInit"
                                                ELSE "awaitCtx"
            /\ lifecycle' = IF isInitializing THEN "active" ELSE "closing"
            /\ UNCHANGED <<ctx, stream, source, graph, openCtxs, openStreams,
                           isProcessing>>
       ELSE /\ ctx' = NULL
            /\ stream' = StreamAfterClose(stream)
            /\ openStreams' = openStreams \ {stream}
            /\ source' = NULL
            /\ graph' = GraphAfterClose(graph)
            /\ isProcessing' = FALSE
            /\ lifecycle' = IF isInitializing THEN "active"
                            ELSE IF lifecycle \in Closed THEN "reclosed"
                            ELSE "closed"
            /\ UNCHANGED <<openCtxs, closePc>>
  /\ UNCHANGED <<dspVars, renderVars, build, bypassEdit, isInitializing, target, masterValue,
                 safetyTimer, onAutoMuteTriggered, nextId, initPc, initFile,
                 initSink, settings, notified, tripped, polled, staleTouched,
                 initOutcome>>

\* ctx.close() settled: the context is closed, and the rest of close() runs.
\* A close() inside init() that awaits the same context since before resumes
\* first.
CloseDone ==
  /\ \/ closePc = "awaitCtx"
     \/ closePc = "awaitCtxAfterInit" /\ initPc # "closing"
  /\ closePc' = "idle"
  /\ openCtxs' = openCtxs \ {ctx}
  /\ lifecycle' = IF lifecycle = "closing" THEN "closed" ELSE "active"
  /\ ctx' = NULL
  /\ stream' = StreamAfterClose(stream)
  /\ openStreams' = openStreams \ {stream}
  /\ source' = NULL
  /\ graph' = GraphAfterClose(graph)
  /\ isProcessing' = FALSE
  /\ UNCHANGED <<dspVars, renderVars, build, closeError, bypassEdit, isInitializing, target,
                 masterValue, safetyTimer, onAutoMuteTriggered, rafPending,
                 nextId, initPc, initFile, initSink, settings, notified,
                 tripped, polled, staleTouched, initOutcome>>

\* ----------------------------------------------------------------- init
\* The graph init() builds in context c.  The "basic" revision keeps its
\* master mix in a local and the "multi" revision has no bypass path.
BuiltGraph(c) ==
  [f \in NodeFields |->
     CASE f = "masterGainNode" -> IF build = "basic" THEN graph[f] ELSE c
       [] f = "bypassGainNode" -> IF build = "multi" THEN graph[f] ELSE c
       [] OTHER -> c]

\* The targets of the gains of a graph init() has just built: a new GainNode
\* has gain 1.
BuiltTargets ==
  [n \in GainNames |->
     CASE n = "master" -> IF build = "basic" THEN target[n] ELSE DefaultGain
       [] n = "bypass" -> IF build = "multi" THEN target[n] ELSE DefaultGain
       [] OTHER -> DefaultGain]

\* The value of the master gain of a graph init() has just built.
BuiltMasterValue ==
  IF build = "basic" THEN masterValue ELSE DefaultGain

\* startSafetyMonitoring on graph g: the poll loop it schedules, if any.
MonitorLoop(g) ==
  IF build = "safety" /\ g["analyserOutput"] # NULL
    THEN g["analyserOutput"] ELSE NULL

\* The end of a successful init(): startSafetyMonitoring, the finally block,
\* and startEngine's continuation (updateSettings, isProcessing, and the
\* settings effect that isProcessing triggers).  g, t, mv are the graph, the
\* targets and the master value at that point.
InitFinish(g, t, mv) ==
  /\ graph' = g
  /\ masterValue' = mv
  /\ rafPending' = IF MonitorLoop(g) # NULL
                     THEN rafPending \cup {MonitorLoop(g)} ELSE rafPending
  /\ safetyTimer' = IF MonitorLoop(g) # NULL THEN MonitorLoop(g)
                                              ELSE safetyTimer
  /\ UpdateSettings(settings, ctx, g, t)
  /\ isProcessing' = TRUE
  /\ isInitializing' = FALSE
  /\ initPc' = "idle"
  /\ initFile' = FALSE
  /\ initSink' = FALSE
  /\ initOutcome' = "ok"

\* An init() without the finally block: the flag stays as it is.
FlagKeptAfterThrow == isInitializing

\* finally { this.isInitializing = false; }
FlagAfterThrow == FALSE

\* init() throws: the catch block rethrows, the finally block clears the
\* flag, startEngine logs the error.
InitThrow ==
  /\ isInitializing' = FlagAfterThrow
  /\ initPc' = "idle"
  /\ initFile' = FALSE
  /\ initSink' = FALSE
  /\ initOutcome' = "error"

\* init() from the end of its close() to its next await: the new context.
InitOpenContext(sink) ==
  /\ ctx' = nextId
  /\ openCtxs' = (openCtxs \ {ctx}) \cup {nextId}
  /\ nextId' = nextId + 1
  /\ stream' = StreamAfterClose(stream)
  /\ openStreams' = openStreams \ {stream}
  /\ source' = NULL
  /\ graph' = GraphAfterClose(graph)
  /\ initPc' = IF sink THEN "sink" ELSE "module"

\* startEngine calls init(inputDeviceId, previewFile, outputDeviceId): the
\* guard, the flag, and close() up to its await.
InitCall ==
  /\ ~isInitializing
  /\ nextId <= MaxSessions
  /\ isInitializing' = TRUE
  /\ initFile' \in BOOLEAN
  /\ rafPending' = PendingAfterCancel
  /\ notified' = 0
  /\ tripped' = FALSE
  /\ polled' = FALSE
  /\ initOutcome' = "none"
  /\ lifecycle' = "active"
  /\ \E sink \in BOOLEAN :
       /\ initSink' = sink
       /\ IF CloseAwaits
            THEN /\ initPc' = "closing"
                 /\ UNCHANGED <<ctx, stream, source, graph, openCtxs,
                                openStreams, nextId>>
            ELSE InitOpenContext(sink)
  /\ UNCHANGED <<dspVars, renderVars, build, closeError, bypassEdit, target, masterValue, safetyTimer, onAutoMuteTriggered,
                 closePc, settings, isProcessing, staleTouched>>

\* ctx.close() settled inside init(): the rest of close(), the new context.
\* A close() of the control layer that awaits the same context since before
\* resumes first.
InitCloseDone ==
  /\ initPc = "closing"
  /\ closePc # "awaitCtx"
  /\ InitOpenContext(initSink)
  /\ UNCHANGED <<dspVars, renderVars, build, lifecycle, closeError, bypassEdit, isInitializing, target, masterValue, safetyTimer,
                 onAutoMuteTriggered, rafPending, initFile, initSink, closePc,
                 settings, isProcessing, notified, tripped, polled,
                 staleTouched, initOutcome>>

\* init() resumes and the next statement dereferences this.ctx, which a
\* close() that ran meanwhile has set to null: a TypeError.
InitStep(next) ==
  IF ctx = NULL
    THEN InitThrow
    ELSE /\ initPc' = next
         /\ UNCHANGED <<isInitializing, initFile, initSink, initOutcome>>

\* setSinkId settled.  The "multi" revision swallows its rejection.
InitSinkDone ==
  /\ initPc = "sink"
  /\ \E ok \in BOOLEAN :
       IF ok \/ build = "multi" THEN InitStep("module") ELSE InitThrow
  /\ UNCHANGED <<dspVars, renderVars, build, lifecycle, closeError, bypassEdit, ctx, stream, source, graph, target, masterValue,
                 safetyTimer, onAutoMuteTriggered, rafPending, openCtxs,
                 openStreams, nextId, closePc, settings,
                 isProcessing, notified, tripped, polled, staleTouched>>

\* audioWorklet.addModule settled; next is previewFile.arrayBuffer() or
\* getUserMedia, neither of which needs this.ctx.
InitModuleDone ==
  /\ initPc = "module"
  /\ \E ok \in BOOLEAN :
       IF ok
         THEN /\ initPc' = IF initFile THEN "file" ELSE "capture"
              /\ UNCHANGED <<isInitializing, initFile, initSink, initOutcome>>
         ELSE InitThrow
  /\ UNCHANGED <<dspVars, renderVars, build, lifecycle, closeError, bypassEdit, ctx, stream, source, graph, target, masterValue,
                 safetyTimer, onAutoMuteTriggered, rafPending, openCtxs,
                 openStreams, nextId, closePc, settings,
                 isProcessing, notified, tripped, polled, staleTouched>>

\* previewFile.arrayBuffer() settled; next is this.ctx.decodeAudioData.
InitFileRead ==
  /\ initPc = "file"
  /\ InitStep("decode")
  /\ UNCHANGED <<dspVars, renderVars, build, lifecycle, closeError, bypassEdit, ctx, stream, source, graph, target, masterValue,
                 safetyTimer, onAutoMuteTriggered, rafPending, openCtxs,
                 openStreams, nextId, closePc, settings,
                 isProcessing, notified, tripped, polled, staleTouched>>

\* init() from the source node to its next await or its end: the graph is
\* built, and ctx.resume() is awaited when the context is suspended.
InitBuild ==
  /\ source' = ctx
  /\ \E suspended \in BOOLEAN :
       IF suspended
         THEN /\ graph' = BuiltGraph(ctx)
              /\ target' = BuiltTargets
              /\ masterValue' = BuiltMasterValue
              /\ initPc' = "resume"
              /\ UNCHANGED <<isInitializing, initFile, initSink,
                             initOutcome, safetyTimer, rafPending,
                             isProcessing, staleTouched>>
         ELSE InitFinish(BuiltGraph(ctx), BuiltTargets, BuiltMasterValue)

\* decodeAudioData settled.
InitDecodeDone ==
  /\ initPc = "decode"
  /\ \E ok \in BOOLEAN :
       IF ok /\ ctx # NULL
         THEN InitBuild
         ELSE /\ InitThrow
              /\ UNCHANGED <<source, graph, target, masterValue, safetyTimer,
                             rafPending, isProcessing, staleTouched>>
  /\ UNCHANGED <<dspVars, renderVars, build, lifecycle, closeError, bypassEdit, ctx, stream, onAutoMuteTriggered, openCtxs,
                 openStreams, nextId, closePc, settings,
                 notified, tripped, polled>>

\* getUserMedia settled: this.stream is assigned before this.ctx is used.
InitCaptureDone ==
  /\ initPc = "capture"
  /\ \E ok \in BOOLEAN :
       IF ok
         THEN /\ stream' = nextId - 1
              /\ openStreams' = openStreams \cup {nextId - 1}
              /\ IF ctx # NULL
                   THEN InitBuild
                   ELSE /\ InitThrow
                        /\ UNCHANGED <<source, graph, target, masterValue,
                                       safetyTimer, rafPending, isProcessing,
                                       staleTouched>>
         ELSE /\ InitThrow
              /\ UNCHANGED <<stream, openStreams, source, graph, target,
                             masterValue, safetyTimer, rafPending,
                             isProcessing, staleTouched>>
  /\ UNCHANGED <<dspVars, renderVars, build, lifecycle, closeError, bypassEdit, ctx, onAutoMuteTriggered, openCtxs, nextId, closePc, settings, notified, tripped, polled>>

\* ctx.resume() settled.
InitResumeDone ==
  /\ initPc = "resume"
  /\ \E ok \in BOOLEAN :
       IF ok
         THEN InitFinish(graph, target, masterValue)
         ELSE /\ InitThrow
              /\ UNCHANGED <<graph, target, masterValue, safetyTimer,
                             rafPending, isProcessing, staleTouched>>
  /\ UNCHANGED <<dspVars, renderVars, build, lifecycle, closeError, bypassEdit, ctx, stream, source, onAutoMuteTriggered, openCtxs,
                 openStreams, nextId, closePc, settings,
                 notified, tripped, polled>>

\* ------------------------------------------------------- safety monitor
\* A limiter that also trips at the threshold itself.
ExceedsThresholdInclusive(peak) == peak >= SafetyThreshold

\* checkLevel's test of the window's peak against the threshold.
ExceedsThreshold(peak) == peak > SafetyThreshold

\* A checkLevel that requests the next frame even after it has tripped.
PendingKeptAfterTrip(l) == rafPending

\* The frame callbacks scheduled after checkLevel tripped in loop l: it
\* returns without requesting the next frame.
PendingAfterTrip(l) == rafPending \ {l}

\* A checkLevel without the test of its nodes.
NodesAbsentUntested(g) == FALSE

\* checkLevel's guard `if (!this.analyserOutput || !this.masterGainNode)
\* return;`.
NodesAbsent(g) ==
  g["analyserOutput"] = NULL \/ g["masterGainNode"] = NULL

\* One run of checkLevel for poll loop l, the window of the post-master tap
\* showing the given peak.  The frame callback is consumed; the loop goes on
\* only if checkLevel requests the next frame.
CheckLevel(l, peak) ==
  /\ l \in rafPending
  /\ polled' = (polled \/ tripped)
  /\ IF NodesAbsent(graph)
       THEN /\ rafPending' = rafPending \ {l}
            /\ UNCHANGED <<masterValue, target, notified, tripped,
                           safetyTimer, staleTouched>>
       ELSE /\ staleTouched' = (staleTouched
                                 \/ graph["analyserOutput"] # ctx
                                 \/ (ExceedsThreshold(peak)
                                       /\ graph["masterGainNode"] # ctx))
            /\ IF ExceedsThreshold(peak)
                 THEN /\ masterValue' = 0
                      /\ target' = [target EXCEPT !["master"] = 0]
                      /\ notified' = IF onAutoMuteTriggered
                                       THEN notified + 1 ELSE notified
                      /\ tripped' = TRUE
                      /\ rafPending' = PendingAfterTrip(l)
                      /\ UNCHANGED safetyTimer
                 ELSE /\ rafPending' = rafPending
                      /\ safetyTimer' = l
                      /\ UNCHANGED <<masterValue, target, notified, tripped>>
  /\ UNCHANGED <<dspVars, renderVars, build, lifecycle, closeError, bypassEdit, ctx, stream, isInitializing, source, graph,
                 onAutoMuteTriggered, openCtxs, openStreams, nextId, initPc,
                 initFile, initSink, closePc, settings, isProcessing,
                 initOutcome>>

SafetyPoll == \E l \in rafPending, peak \in Peaks : CheckLevel(l, peak)

\* The control layer registers its safety-tripped callback.
RegisterAutoMute ==
  /\ ~onAutoMuteTriggered
  /\ onAutoMuteTriggered' = TRUE
  /\ UNCHANGED <<dspVars, renderVars, build, lifecycle, closeError, bypassEdit, ctx, stream, isInitializing, source, graph, target,
                 masterValue, safetyTimer, rafPending, openCtxs, openStreams,
                 nextId, initPc, initFile, initSink, closePc, settings,
                 isProcessing, notified, tripped, polled, staleTouched,
                 initOutcome>>

\* -------------------------------------------------------- specification
Next ==
  \/ InitCall
  \/ InitCloseDone
  \/ InitSinkDone
  \/ InitModuleDone
  \/ InitFileRead
  \/ InitDecodeDone
  \/ InitCaptureDone
  \/ InitResumeDone
  \/ CloseCall
  \/ CloseDone
  \/ ToggleBypass
  \/ SetWetGain
  \/ SetDryGain
  \/ SetMasterGain
  \/ SetBypassGain
  \/ AudioParamTick
  \/ SafetyPoll
  \/ RegisterAutoMute

Spec == Init /\ [][Next]_vars

\* ---------------------------------------------------------------- claims
\* The graph of the live session is complete: every node the revision uses
\* belongs to the live context.
Running ==
  /\ ctx # NULL
  /\ source = ctx
  /\ \A f \in NodeFields :
       (/\ ~(f = "masterGainNode" /\ build = "basic")
        /\ ~(f = "bypassGainNode" /\ build = "multi")) => graph[f] = ctx

\* C1: a safety poll that gets past its guard and sees a peak strictly above
\* 1.5 sets the master gain to 0 in that same poll; a poll that sees a peak of
\* at most 1.5 changes neither the master gain nor its target and does not
\* notify.
C1_PollMutesAboveThreshold ==
  [][\A l \in rafPending, p \in Peaks :
       (/\ CheckLevel(l, p)
        /\ graph["analyserOutput"] # NULL
        /\ graph["masterGainNode"] # NULL)
       => IF p > 150
            THEN masterValue' = 0
            ELSE /\ masterValue' = masterValue
                 /\ target' = target
                 /\ notified' = notified]_vars

\* A poll has tripped the limiter and notified the control layer.
C1_Witness ==
  /\ build = "safety"
  /\ tripped
  /\ masterValue = 0
  /\ notified = 1

\* updateSettings has run with the latest settings on the complete graph: the
\* last init() succeeded, the engine runs, and the settings effect is active.
SettingsApplied ==
  /\ Running
  /\ initPc = "idle"
  /\ initOutcome = "ok"
  /\ isProcessing

\* C2: once the limiter has tripped, the master gain and its target stay 0
\* until init() is called again, whatever updateSettings calls come between.
C2_MuteHoldsUntilRestart ==
  tripped => (masterValue = 0 /\ target["master"] = 0)

\* C3: per engine start the safety-tripped callback is called at most once,
\* and no safety poll runs between the trip and the next init().
C3_OneShotNotification ==
  /\ notified <= 1
  /\ ~polled

\* The limiter tripped in a running session, the callback was called, and no
\* poll is scheduled any more.
C3_Witness ==
  /\ tripped
  /\ notified = 1
  /\ rafPending = {}
  /\ ctx # NULL
  /\ graph["masterGainNode"] = ctx

\* C4: with the latest settings applied to a running engine, bypass set means
\* dry and wet targets 0 and bypass target 1.0, bypass cleared means bypass
\* target 0; the bypass path and the dry/wet paths never both have a non-zero
\* target.
C4_BypassExclusive ==
  SettingsApplied =>
    /\ settings.bypassEffects =>
         (target["wet"] = 0 /\ target["dry"] = 0 /\ target["bypass"] = 100)
    /\ ~settings.bypassEffects => target["bypass"] = 0
    /\ ~(target["bypass"] # 0 /\ (target["wet"] # 0 \/ target["dry"] # 0))

\* C5: on a running engine, a change of the settings that leaves bypass
\* cleared (the BYPASS button clearing it, or a slider) sets the dry and wet
\* targets to the stored dry and wet settings, whatever was changed while
\* bypass was on; and the BYPASS button changes no stored value but the
\* bypass flag.
C5_BypassRestoresUserGains ==
  [][/\ (settings' # settings /\ isProcessing /\ Running
          /\ ~settings'.bypassEffects) =>
          /\ target'["wet"] = settings'.wetGain
          /\ target'["dry"] = settings'.wetPathDryGain
     /\ ToggleBypass =>
          settings' = [settings EXCEPT
                         !.bypassEffects = ~settings.bypassEffects]]_vars

\* Bypass was set, both sliders were moved away from their initial values
\* while it was on, and bypass was cleared: the targets are the new values.
C5_Witness ==
  /\ SettingsApplied
  /\ bypassEdit = "restored"
  /\ ~settings.bypassEffects
  /\ settings.wetGain # DefaultSettings.wetGain
  /\ settings.wetPathDryGain # DefaultSettings.wetPathDryGain
  /\ target["wet"] = settings.wetGain
  /\ target["dry"] = settings.wetPathDryGain

C7_NoDanglingReferences ==
  /\ lifecycle \in Closed =>
       /\ ctx = NULL
       /\ stream = NULL
       /\ source = NULL
       /\ graph = NoGraph
  /\ ~staleTouched

\* C8: an init() that failed leaves the engine torn down: no context, stream,
\* source or node is referenced, and no context or stream is open.
C8_FailedInitTornDown ==
  (initOutcome = "error" /\ initPc = "idle" /\ closePc = "idle") =>
    /\ ctx = NULL
    /\ stream = NULL
    /\ source = NULL
    /\ graph = NoGraph
    /\ openCtxs = {}
    /\ openStreams = {}

----------------------------------------------------------------------------
\* renderOffline(file, settings): a suspended call resumes at each await.
\* It works on a temporary AudioContext of its own and on an
\* OfflineAudioContext, both locals of the call.

\* The sample rate of the decoded buffer: tempCtx is opened at 48000 Hz, at
\* 44100 Hz, or at the device's rate.
RenderRates ==
  CASE build = "safety" -> {48000}
    [] build = "multi"  -> {44100}
    [] OTHER            -> SampleRates

\* The decoded buffer's length in frames.
BufferLength(in, rate) == Frames(in.duration, rate)

\* The length given to the OfflineAudioContext.
OfflineLength(in, rate) ==
  IF build = "multi"
  THEN BufferLength(in, rate)
  ELSE Frames(in.duration + in.reverbDuration + RenderGuard, rate)

\* A decode on the live context instead of a temporary one.
RenderCtxLive == ctx

\* The context renderOffline decodes on and then closes.
RenderCtx == renderTemp

RenderFail ==
  /\ renderPc' = "idle"
  /\ renderOut' = "error"

\* const arrayBuffer = await file.arrayBuffer()
RenderCall ==
  /\ renderPc = "idle"
  /\ renders < MaxRenders
  /\ renders' = renders + 1
  /\ renderPc' = "read"
  /\ \E d \in InputDurations, r \in ReverbDurations :
       renderIn' = [duration |-> d, reverbDuration |-> r]
  /\ renderTemp' = NULL
  /\ renderRate' = 0
  /\ renderLen' = 0
  /\ renderOut' = "none"
  /\ UNCHANGED <<dspVars, build, engineVars, onAutoMuteTriggered, nextId, initPc, initFile,
                 initSink, closePc, settings, isProcessing, notified, tripped,
                 polled, staleTouched, initOutcome, lifecycle, closeError,
                 bypassEdit>>

\* tempCtx = new AudioContext(...); await tempCtx.decodeAudioData(arrayBuffer)
RenderRead ==
  /\ renderPc = "read"
  /\ renderTemp' = 0 - renders
  /\ openCtxs' = openCtxs \cup {0 - renders}
  /\ \E rate \in RenderRates : renderRate' = rate
  /\ renderPc' = "decode"
  /\ UNCHANGED <<dspVars, build, ctx, stream, isInitializing, source, graph, target,
                 masterValue, safetyTimer, rafPending, openStreams,
                 onAutoMuteTriggered, nextId, initPc, initFile, initSink,
                 closePc, settings, isProcessing, notified, tripped, polled,
                 staleTouched, initOutcome, lifecycle, closeError, bypassEdit,
                 renders, renderIn, renderLen, renderOut>>

\* decodeAudioData settles; on success await tempCtx.close() is next.
RenderDecodeDone ==
  /\ renderPc = "decode"
  /\ \/ /\ renderPc' = "closeTemp"
        /\ UNCHANGED renderOut
     \/ RenderFail
  /\ UNCHANGED <<dspVars, build, engineVars, onAutoMuteTriggered, nextId, initPc, initFile,
                 initSink, closePc, settings, isProcessing, notified, tripped,
                 polled, staleTouched, initOutcome, lifecycle, closeError,
                 bypassEdit, renders, renderTemp, renderIn, renderRate,
                 renderLen>>

\* tempCtx.close() resolves; the OfflineAudioContext is created and
\* audioWorklet.addModule is awaited.
RenderTempClosed ==
  /\ renderPc = "closeTemp"
  /\ openCtxs' = openCtxs \ {RenderCtx}
  /\ renderTemp' = NULL
  /\ renderLen' = OfflineLength(renderIn, renderRate)
  /\ renderPc' = "module"
  /\ UNCHANGED <<dspVars, build, ctx, stream, isInitializing, source, graph, target,
                 masterValue, safetyTimer, rafPending, openStreams,
                 onAutoMuteTriggered, nextId, initPc, initFile, initSink,
                 closePc, settings, isProcessing, notified, tripped, polled,
                 staleTouched, initOutcome, lifecycle, closeError, bypassEdit,
                 renders, renderIn, renderRate, renderOut>>

\* addModule settles; on success the offline graph is built and
\* startRendering is awaited.
RenderModuleDone ==
  /\ renderPc = "module"
  /\ \/ /\ renderPc' = "render"
        /\ UNCHANGED renderOut
     \/ RenderFail
  /\ UNCHANGED <<dspVars, build, engineVars, onAutoMuteTriggered, nextId, initPc, initFile,
                 initSink, closePc, settings, isProcessing, notified, tripped,
                 polled, staleTouched, initOutcome, lifecycle, closeError,
                 bypassEdit, renders, renderTemp, renderIn, renderRate,
                 renderLen>>

\* startRendering settles; the rendered buffer has the context's length.
RenderDone ==
  /\ renderPc = "render"
  /\ renderPc' = "idle"
  /\ \/ renderOut' = "ok"
     \/ renderOut' = "error"
  /\ UNCHANGED <<dspVars, build, engineVars, onAutoMuteTriggered, nextId, initPc, initFile,
                 initSink, closePc, settings, isProcessing, notified, tripped,
                 polled, staleTouched, initOutcome, lifecycle, closeError,
                 bypassEdit, renders, renderTemp, renderIn, renderRate,
                 renderLen>>

\* The file processor beside the live engine: offline renders interleaved
\* with the live session's start, restart, stop and safety monitor.
NextOffline ==
  \/ RenderCall
  \/ RenderRead
  \/ RenderDecodeDone
  \/ RenderTempClosed
  \/ RenderModuleDone
  \/ RenderDone
  \/ InitCall
  \/ InitCloseDone
  \/ InitSinkDone
  \/ InitModuleDone
  \/ InitFileRead
  \/ InitDecodeDone
  \/ InitCaptureDone
  \/ InitResumeDone
  \/ CloseCall
  \/ CloseDone
  \/ SafetyPoll

SpecOffline == Init /\ [][NextOffline]_vars

----------------------------------------------------------------------------
\* A step of a renderOffline call.
RenderStep == renderPc' # renderPc

\* C9: no step of renderOffline, whatever its outcome, changes the live
\* engine's context, stream, source, graph nodes, gain targets, master gain,
\* safety timer or pending safety polls, nor closes the live context, also
\* while a live session runs.
C9_RenderLeavesLiveEngine ==
  [][RenderStep =>
       /\ UNCHANGED <<ctx, stream, isInitializing, source, graph, target,
                      masterValue, safetyTimer, rafPending, openStreams>>
       /\ (ctx \in openCtxs') = (ctx \in openCtxs)]_vars

\* A render has finished successfully while a live session is running with
\* its context open.
C9_Witness ==
  /\ renderOut = "ok"
  /\ renderLen > 0
  /\ Running
  /\ ctx \in openCtxs
  /\ lifecycle = "active"

\* C10: a finished offline render has
\* ceil((inputDuration + reverbDuration + 0.5) * sampleRate) frames.
C10_RenderLength ==
  renderOut = "ok" =>
    renderLen = Frames(renderIn.duration + renderIn.reverbDuration + RenderGuard,
                       renderRate)

----------------------------------------------------------------------------
\* The graph renderOffline builds in its OfflineAudioContext, and the
\* routing of the live graph once its gains have reached their targets.

\* The gain nodes of an offline graph.
OfflineGainNodes == {"wetGain", "dryGain", "bypass", "master"}

\* The nodes that process the effect path.
EffectNodes == {"lowCut", "highCut", "reverb", "wetGain", "dryGain"}

\* source -> lowCut -> highCut -> reverb -> wetGain -> out, source -> dryGain
\* -> out: the effect connections every revision makes, into node out.
EffectEdges(out) ==
  {<<"source", "lowCut">>, <<"lowCut", "highCut">>, <<"highCut", "reverb">>,
   <<"reverb", "wetGain">>, <<"wetGain", out>>, <<"source", "dryGain">>,
   <<"dryGain", out>>}

\* The connect() calls of renderOffline for settings s.
OfflineEdges(s) ==
  CASE build = "safety" ->
         IF s.bypassEffects
           THEN {<<"source", "master">>, <<"master", "destination">>}
           ELSE EffectEdges("master") \cup {<<"master", "destination">>}
    [] build = "multi" ->
         EffectEdges("master") \cup {<<"master", "destination">>}
    [] OTHER ->
         IF s.bypassEffects
           THEN {<<"source", "bypass">>, <<"bypass", "destination">>}
           ELSE EffectEdges("destination")

\* The gain values renderOffline gives its gain nodes; a gain node it does
\* not set keeps the default.
OfflineGains(s) ==
  [n \in OfflineGainNodes |->
     CASE n = "master" -> IF build = "basic" THEN DefaultGain ELSE s.masterGain
       [] n = "bypass" -> IF build = "basic" /\ s.bypassEffects
                            THEN s.bypassGain ELSE DefaultGain
       [] n = "wetGain" -> IF build = "basic" /\ s.bypassEffects
                             THEN DefaultGain ELSE s.wetGain
       [] n = "dryGain" -> IF build = "basic" /\ s.bypassEffects
                             THEN DefaultGain ELSE s.wetPathDryGain]

\* renderOffline's graph for settings s.
OfflineGraph(s) ==
  [edges |-> OfflineEdges(s), gain |-> OfflineGains(s)]

\* The signal paths of a graph from node n to the destination.
RECURSIVE Paths(_, _)
Paths(E, n) ==
  IF n = "destination"
    THEN {<<n>>}
    ELSE UNION {{<<n>> \o p : p \in Paths(E, e[2])} :
                  e \in {x \in E : x[1] = n}}

\* The nodes of a graph the source's signal passes on its way out.
OnPath(g) ==
  UNION {{p[i] : i \in 1..Len(p)} : p \in Paths(g.edges, "source")}

\* The product of the gains along path p from position i on, in units of
\* 1/10000 when slots = 2 (the paths have at most two gain nodes).
RECURSIVE PathScale(_, _, _, _)
PathScale(gain, p, i, slots) ==
  IF i > Len(p)
    THEN (IF slots = 2 THEN 10000 ELSE IF slots = 1 THEN 100 ELSE 1)
    ELSE IF p[i] \in OfflineGainNodes
           THEN gain[p[i]] * PathScale(gain, p, i + 1, slots - 1)
           ELSE PathScale(gain, p, i + 1, slots)

RECURSIVE SumScales(_, _)
SumScales(gain, ps) ==
  IF ps = {} THEN 0
  ELSE LET p == CHOOSE q \in ps : TRUE
       IN PathScale(gain, p, 1, 2) + SumScales(gain, ps \ {p})

\* What the graph multiplies the unprocessed source by (1/10000).
DirectScale(g) ==
  SumScales(g.gain, {p \in Paths(g.edges, "source") :
                       \A i \in 1..Len(p) : p[i] # "reverb"})

\* What the graph multiplies the kernel's output by (1/10000).
WetScale(g) ==
  SumScales(g.gain, {p \in Paths(g.edges, "source") :
                       \E i \in 1..Len(p) : p[i] = "reverb"})

\* The live graph with every gain at the target updateSettings(s) gives it.
\* The "multi" revision has no bypass node; in the "basic" revision the
\* master mix is a local gain node left at its default.
LiveSteadyGraph(s) ==
  LET t == TargetsAfterUpdate(s, BuiltGraph(1), BuiltTargets)
  IN [edges |-> EffectEdges("master") \cup {<<"master", "destination">>}
                  \cup (IF build = "multi" THEN {}
                        ELSE {<<"source", "bypass">>, <<"bypass", "master">>}),
      gain  |-> [n \in OfflineGainNodes |->
                   CASE n = "master" -> t["master"]
                     [] n = "bypass" -> t["bypass"]
                     [] n = "wetGain" -> t["wet"]
                     [] n = "dryGain" -> t["dry"]]]

\* renderOffline builds its graph from the settings it was given.
RenderBuildGraph ==
  /\ offlineGraph = NoOfflineGraph
  /\ offlineGraph' = OfflineGraph(offlineSettings)
  /\ UNCHANGED <<liveVars, renderVars, jobVars, lfoVars, offlineSettings, wavVars, kernelVars, appVars, smoothVars, tankVars, lineVars>>

\* The control layer hands renderOffline another settings object.
RenderNewSettings ==
  /\ offlineGraph # NoOfflineGraph
  /\ \E s \in AudioSettings : offlineSettings' = s
  /\ offlineGraph' = NoOfflineGraph
  /\ UNCHANGED <<liveVars, renderVars, jobVars, lfoVars, wavVars, kernelVars, appVars, smoothVars, tankVars, lineVars>>

InitOfflineGraph ==
  /\ EngineInit
  /\ JobIdle
  /\ LfoIdle
  /\ LineIdle
  /\ TankIdle
  /\ SmoothIdle
  /\ AppIdle
  /\ WavIdle
  /\ KernelIdle
  /\ offlineSettings \in AudioSettings
  /\ offlineGraph = NoOfflineGraph

NextOfflineGraph ==
  \/ RenderBuildGraph
  \/ RenderNewSettings

SpecOfflineGraph == InitOfflineGraph /\ [][NextOfflineGraph]_vars

\* C11: a graph renderOffline builds with bypass set has no filter, kernel,
\* wet gain or dry gain on the signal path, and scales the source, and the
\* kernel's output, as the live graph does in its steady state for the same
\* settings.
C11_OfflineBypassAsLive ==
  (offlineGraph # NoOfflineGraph /\ offlineSettings.bypassEffects) =>
    /\ OnPath(offlineGraph) \cap EffectNodes = {}
    /\ DirectScale(offlineGraph) = DirectScale(LiveSteadyGraph(offlineSettings))
    /\ WetScale(offlineGraph) = WetScale(LiveSteadyGraph(offlineSettings))

----------------------------------------------------------------------------
\* bufferToWav(buffer): the 44-byte header and the 16-bit payload.

\* Samples are in thousandths.
SampleUnit == 1000
\* The code of a sample that is not a number.
NaN == 1000000
\* 0x7FFF and 0x8000, the scales of non-negative and of negative samples.
Int16Max == 32767
Int16Min == 32768

\* Sample values a rendered buffer may hold: in range, at the ends of the
\* range, out of range, and not a number.
SampleValues == {-1500, -1000, -900, 0, 900, 1000, 1500, NaN}

\* Channel counts of the buffers.
ChannelCounts == {1, 2, 3}

\* The shapes <<C, N>> of the buffers: C channels of N frames.
BufferShapes ==
  {x \in ChannelCounts \X (0..MaxSamples) : x[1] * x[2] <= MaxSamples}

\* b is a buffer of one of these shapes with samples from SampleValues.
IsBuffer(b) ==
  \E x \in BufferShapes, R \in RenderRates :
    \E d \in [1..x[1] -> [1..x[2] -> SampleValues]] :
      b = [numberOfChannels |-> x[1], length |-> x[2], sampleRate |-> R,
           data |-> d]

\* view.setUint8 of each character of a string.
StringBytes(s) ==
  CASE s = "RIFF" -> <<82, 73, 70, 70>>
    [] s = "WAVE" -> <<87, 65, 86, 69>>
    [] s = "fmt " -> <<102, 109, 116, 32>>
    [] s = "data" -> <<100, 97, 116, 97>>

\* view.setUint32(pos, v, true) and view.setUint16(pos, v, true).
Uint32Bytes(v) ==
  <<v % 256, (v \div 256) % 256, (v \div 65536) % 256,
    (v \div 16777216) % 256>>

Uint16Bytes(v) == <<v % 256, (v \div 256) % 256>>

\* The byte rate field: sampleRate * 2 * numOfChan, or sampleRate * 4.
ByteRate(b) ==
  IF build = "multi" THEN b.sampleRate * 4
  ELSE b.sampleRate * 2 * b.numberOfChannels

\* const length = buffer.length * numOfChan * 2 + 44
WavLength(b) == b.length * b.numberOfChannels * 2 + 44

\* The header, field by field in the order bufferToWav writes it.
WavHeader(b) ==
  StringBytes("RIFF") \o Uint32Bytes(WavLength(b) - 8) \o StringBytes("WAVE")
    \o StringBytes("fmt ") \o Uint32Bytes(16) \o Uint16Bytes(1)
    \o Uint16Bytes(b.numberOfChannels) \o Uint32Bytes(b.sampleRate)
    \o Uint32Bytes(ByteRate(b)) \o Uint16Bytes(b.numberOfChannels * 2)
    \o Uint16Bytes(16) \o StringBytes("data")
    \o Uint32Bytes(WavLength(b) - 44)

\* An encoder without the clamp.
ClampNone(x) == x

\* Math.max(-1, Math.min(1, sample)): NaN stays NaN.
Clamp(x) ==
  IF x = NaN THEN NaN
  ELSE IF x > SampleUnit THEN SampleUnit
  ELSE IF x < 0 - SampleUnit THEN 0 - SampleUnit
  ELSE x

\* sample < 0 ? sample * 0x8000 : sample * 0x7FFF, in thousandths.
ScaleSample(x) ==
  IF x = NaN THEN NaN
  ELSE IF x < 0 THEN x * Int16Min ELSE x * Int16Max

\* The integer setInt16 stores for a number y (in thousandths): NaN gives 0,
\* the fraction is dropped towards zero, and the result wraps modulo 2^16.
ToInt16(y) ==
  IF y = NaN THEN 0
  ELSE LET t == IF y < 0 THEN 0 - ((0 - y) \div SampleUnit)
                 ELSE y \div SampleUnit
       IN ((t + 32768) % 65536) - 32768

\* The 16-bit integer stored for a sample.
SampleToInt16(x) == ToInt16(ScaleSample(Clamp(x)))

\* view.setInt16(pos, v, false): the high byte first.
Int16BytesBigEndian(v) == <<((v % 65536) \div 256), (v % 65536) % 256>>

\* view.setInt16(pos, v, true): two's complement, the low byte first.
Int16Bytes(v) == <<(v % 65536) % 256, (v % 65536) \div 256>>

\* The payload from frame i on: per frame, one sample of each channel.
RECURSIVE FrameBytes(_, _, _)
FrameBytes(b, i, c) ==
  IF c > b.numberOfChannels THEN << >>
  ELSE Int16Bytes(SampleToInt16(b.data[c][i])) \o FrameBytes(b, i, c + 1)

RECURSIVE PayloadBytes(_, _)
PayloadBytes(b, i) ==
  IF i > b.length THEN << >>
  ELSE FrameBytes(b, i, 1) \o PayloadBytes(b, i + 1)

\* bufferToWav(buffer).
BufferToWav ==
  /\ wavBytes = << >>
  /\ wavBuffer # NoBuffer
  /\ wavBytes' = WavHeader(wavBuffer) \o PayloadBytes(wavBuffer, 1)
  /\ UNCHANGED <<liveVars, renderVars, jobVars, lfoVars, graphVars, wavBuffer, kernelVars, appVars, smoothVars, tankVars, lineVars>>

InitWav ==
  /\ EngineInit
  /\ JobIdle
  /\ LfoIdle
  /\ LineIdle
  /\ TankIdle
  /\ SmoothIdle
  /\ AppIdle
  /\ GraphIdle
  /\ KernelIdle
  /\ IsBuffer(wavBuffer)
  /\ wavBytes = << >>

NextWav == BufferToWav

SpecWav == InitWav /\ [][NextWav]_vars

\* Reading the file back: unsigned and signed little-endian fields at a byte
\* offset counted from 0.
ReadU16(bytes, off) == bytes[off + 1] + 256 * bytes[off + 2]

ReadU32(bytes, off) ==
  bytes[off + 1] + 256 * bytes[off + 2] + 65536 * bytes[off + 3]
    + 16777216 * bytes[off + 4]

ReadS16(bytes, off) ==
  LET u == ReadU16(bytes, off) IN IF u >= 32768 THEN u - 65536 ELSE u

ReadString(bytes, off) == SubSeq(bytes, off + 1, off + 4)

Encoded == wavBytes # << >>

SampleOffset(i, c) == 44 + 2 * ((i - 1) * wavBuffer.numberOfChannels + (c - 1))

\* C13: every stored sample is the clamped input scaled to 16 bits: 1.0 is
\* stored as 32767, -1.0 as -32768, 0.0 as 0, anything above 1.0 as 32767 and
\* anything below -1.0 as -32768, never a wrapped value.
C13_SampleConversion ==
  Encoded =>
    \A c \in 1..wavBuffer.numberOfChannels, i \in 1..wavBuffer.length :
      LET x == wavBuffer.data[c][i]
          v == ReadS16(wavBytes, SampleOffset(i, c))
      IN /\ v >= -32768 /\ v <= 32767
         /\ x = 1000 => v = 32767
         /\ x = -1000 => v = -32768
         /\ x = 0 => v = 0
         /\ (x # NaN /\ x > 1000) => v = 32767
         /\ x < -1000 => v = -32768

\* A buffer with a sample above 1.0 and a sample below -1.0 was encoded.
C13_Witness ==
  /\ Encoded
  /\ \E c \in 1..wavBuffer.numberOfChannels, i \in 1..wavBuffer.length :
       wavBuffer.data[c][i] = 1500
  /\ \E c \in 1..wavBuffer.numberOfChannels, i \in 1..wavBuffer.length :
       wavBuffer.data[c][i] = -1500

\* C14: reading the 16-bit little-endian value at byte 44 + 2*(i*C + c) for
\* frame i and channel c (counted from 0) and dividing it by the scale of its
\* sign (32767, or 32768 for a negative value) gives the input sample to
\* within one 16-bit step, for every sample within [-1, 1].
C14_WavRoundTrip ==
  Encoded =>
    \A c \in 1..wavBuffer.numberOfChannels, i \in 1..wavBuffer.length :
      LET x == wavBuffer.data[c][i]
          v == ReadS16(wavBytes, SampleOffset(i, c))
          scale == IF v < 0 THEN Int16Min ELSE Int16Max
          err == v * SampleUnit - x * scale
      IN (x # NaN /\ x >= -1000 /\ x <= 1000) =>
           (err < SampleUnit /\ 0 - err < SampleUnit)

\* A two-channel, two-frame buffer whose samples all differ was encoded.
C14_Witness ==
  /\ Encoded
  /\ wavBuffer.numberOfChannels = 2
  /\ wavBuffer.length = 2
  /\ wavBuffer.data[1][1] = 900
  /\ wavBuffer.data[2][1] = -900
  /\ wavBuffer.data[1][2] = 1000
  /\ wavBuffer.data[2][2] = 0

----------------------------------------------------------------------------
\* The parameters of the reverb kernel: what updateSettings and renderOffline
\* hand to the AudioParams, and what process() then works with.  Values are
\* in hundredths.

\* The selectors of the three variants.
ValidAlgoModes == {"lexicon", "bricasti", "tcelectronic"}

\* Selectors a settings object may carry.
AlgoModes == ValidAlgoModes \cup {"plate", ""}

\* Values of the numeric settings: below, within and above the ranges.
RT60Values == {5, 150, 1200}
PreDelayValues == {-10, 5, 95, 150}
DampingValues == {50, 220}
SizeValues == {0, 100, 700}
DensityValues == {75, 300}
WetGainValues == {15, 500}

KernelSettings ==
  [algoMode : AlgoModes, reverbDuration : RT60Values,
   reverbPreDelay : PreDelayValues, reverbDecay : DampingValues,
   briSize : SizeValues, briDensity : DensityValues, wetGain : WetGainValues]

\* The closed valid range of each parameter: rt60 0.1..10 s, preDelay
\* 0..1 s, damping 1..10, size 0.1..5, density 0..1, wet gain 0..1.5.
ValidRange ==
  [rt60 |-> <<10, 1000>>, preDelay |-> <<0, 100>>, damping |-> <<100, 1000>>,
   size |-> <<10, 500>>, density |-> <<0, 100>>, wetGain |-> <<0, 150>>]

\* An AudioParam whose descriptor gives minValue and maxValue hands process()
\* the value clamped to that range.
ClampTo(v, lo, hi) == IF v < lo THEN lo ELSE IF v > hi THEN hi ELSE v

\* A selector mapping that sends an unknown selector to the first variant.
ModeIndexFirst(a) ==
  IF a = "tcelectronic" THEN 2 ELSE IF a = "bricasti" THEN 1 ELSE 0

\* settings.algoMode === 'lexicon' ? 0 : settings.algoMode === 'bricasti' ? 1 : 2
ModeIndex(a) ==
  IF a = "lexicon" THEN 0 ELSE IF a = "bricasti" THEN 1 ELSE 2

\* The values process() works with once the AudioParams hold settings s.
\* The "multi" revision declares no ranges and clamps rt60 from below and
\* preDelay from above in process(); the other two declare ranges for rt60,
\* damping and preDelay and have no mode, size or density.  The wet gain is
\* a GainNode's gain, which has no range of its own.
KernelParams(s) ==
  IF build = "multi"
    THEN [mode     |-> ModeIndex(s.algoMode),
          rt60     |-> IF s.reverbDuration < 10 THEN 10 ELSE s.reverbDuration,
          preDelay |-> IF s.reverbPreDelay > 90 THEN 90 ELSE s.reverbPreDelay,
          damping  |-> NoParams.damping,
          size     |-> s.briSize,
          density  |-> s.briDensity,
          wetGain  |-> s.wetGain]
    ELSE [mode     |-> NoParams.mode,
          rt60     |-> ClampTo(s.reverbDuration, 10, 1000),
          preDelay |-> ClampTo(s.reverbPreDelay, 0, 100),
          damping  |-> ClampTo(s.reverbDecay, 100, 1000),
          size     |-> NoParams.size,
          density  |-> NoParams.density,
          wetGain  |-> s.wetGain]

\* The parameters the revision's kernel reads.
ParamsRead ==
  IF build = "multi" THEN {"rt60", "preDelay", "size", "density", "wetGain"}
  ELSE {"rt60", "preDelay", "damping", "wetGain"}

\* The branch of process() that runs for a mode value (units, not
\* hundredths): mode < 0.5, mode < 1.5, otherwise.  The other two revisions
\* have the one four-line network.
ActiveVariant(p) ==
  IF build # "multi" THEN "fdn4"
  ELSE IF p.mode < 1 THEN "lexicon"
  ELSE IF p.mode < 2 THEN "bricasti"
  ELSE "tcelectronic"

\* updateSettings(settings), once every setTargetAtTime has settled.
KernelUpdateSettings ==
  /\ kernelVia = "none"
  /\ kernelVia' = "updateSettings"
  /\ kernelParams' = KernelParams(kernelSettings)
  /\ UNCHANGED <<liveVars, renderVars, jobVars, lfoVars, graphVars, wavVars, appVars, smoothVars, tankVars, lineVars, kernelSettings, kernelFs>>

\* renderOffline(file, settings): setValueAtTime(..., 0), or parameterData
\* and .value in the other two revisions.
KernelRenderOffline ==
  /\ kernelVia = "none"
  /\ kernelVia' = "renderOffline"
  /\ kernelParams' = KernelParams(kernelSettings)
  /\ UNCHANGED <<liveVars, renderVars, jobVars, lfoVars, graphVars, wavVars, appVars, smoothVars, tankVars, lineVars, kernelSettings, kernelFs>>

InitKernelParams ==
  /\ EngineInit
  /\ JobIdle
  /\ LfoIdle
  /\ LineIdle
  /\ TankIdle
  /\ SmoothIdle
  /\ AppIdle
  /\ GraphIdle
  /\ WavIdle
  /\ kernelSettings \in KernelSettings
  /\ kernelFs \in RenderRates
  /\ kernelVia = "none"
  /\ kernelParams = NoParams

NextKernelParams ==
  \/ KernelUpdateSettings
  \/ KernelRenderOffline

SpecKernelParams == InitKernelParams /\ [][NextKernelParams]_vars

\* C15: whatever values the settings carry, every parameter value the kernel
\* or the wet gain node works with lies within that parameter's valid range.
C15_ParamsWithinRange ==
  kernelVia # "none" =>
    \A n \in ParamsRead :
      /\ kernelParams[n] >= ValidRange[n][1]
      /\ kernelParams[n] <= ValidRange[n][2]

\* C16: a selector that is none of the three valid ones makes the kernel run
\* the third variant, whichever invalid selector it is and whether
\* updateSettings or renderOffline applied it.
C16_InvalidSelectorDefault ==
  (kernelVia # "none" /\ build = "multi"
     /\ kernelSettings.algoMode \notin ValidAlgoModes) =>
    ActiveVariant(kernelParams) = "tcelectronic"

\* renderOffline has applied the empty selector.
C16_Witness ==
  /\ build = "multi"
  /\ kernelVia = "renderOffline"
  /\ kernelSettings.algoMode = ""
  /\ ActiveVariant(kernelParams) = "tcelectronic"

----------------------------------------------------------------------------
\* Presets: the suggestions getGeminiPresets returns and App's applyPreset.
\* A partial settings object is a function from the fields it supplies.

\* The fields a suggestion of the collaborator may supply, with the value it
\* gives each.
SuggestedValue ==
  [wetGain |-> 50, masterGain |-> 80, wetPathDryGain |-> 30,
   bypassEffects |-> TRUE]

\* The settings objects the collaborator's answer may carry.
PartialSettings ==
  { [f \in D |-> SuggestedValue[f]] : D \in SUBSET (DOMAIN SuggestedValue) }

\* { ...p.settings, dryGain: 0.0, wetPathDryGain: 1.0 }
WithDryGains(p) ==
  [f \in (DOMAIN p) \cup {"dryGain", "wetPathDryGain"} |->
     IF f = "dryGain" THEN 0
     ELSE IF f = "wetPathDryGain" THEN 100
     ELSE p[f]]

\* { ...prev, ...presetSettings, bypassEffects: false }
MergePreset(prev, p) ==
  [f \in (DOMAIN prev) \cup (DOMAIN p) \cup {"bypassEffects"} |->
     IF f = "bypassEffects" THEN FALSE
     ELSE IF f \in DOMAIN p THEN p[f]
     ELSE prev[f]]

\* handleAiSubmit: getGeminiPresets answers and its presets replace the held
\* ones.
GetGeminiPresets ==
  \E p \in PartialSettings :
    /\ aiPresets' = << WithDryGains(p) >>
    /\ UNCHANGED <<liveVars, renderVars, jobVars, lfoVars, graphVars, wavVars, kernelVars,
                   smoothVars, tankVars, lineVars, appSettings, appPrev, appliedPreset>>

\* Click on a suggestion: applyPreset(p.settings).
ApplyPreset ==
  /\ aiPresets # << >>
  /\ appPrev' = appSettings
  /\ appliedPreset' = aiPresets
  /\ appSettings' = MergePreset(appSettings, aiPresets[1])
  /\ UNCHANGED <<liveVars, renderVars, jobVars, lfoVars, graphVars, wavVars, kernelVars,
                 smoothVars, tankVars, lineVars, aiPresets>>

InitPresets ==
  /\ EngineInit
  /\ JobIdle
  /\ LfoIdle
  /\ LineIdle
  /\ TankIdle
  /\ SmoothIdle
  /\ GraphIdle
  /\ WavIdle
  /\ KernelIdle
  /\ appSettings \in AudioSettings
  /\ aiPresets = << >>
  /\ appPrev = appSettings
  /\ appliedPreset = << >>

NextPresets ==
  \/ GetGeminiPresets
  \/ ApplyPreset

SpecPresets == InitPresets /\ [][NextPresets]_vars

\* C17: after applyPreset, every field of the settings that the applied
\* partial object does not supply has the value it had before.
C17_PresetFrame ==
  appliedPreset # << >> =>
    \A f \in (DOMAIN appPrev) \ (DOMAIN appliedPreset[1]) :
      appSettings[f] = appPrev[f]

----------------------------------------------------------------------------
\* Parameter smoothing: gain.setTargetAtTime(target, now, ramp) makes the
\* gain approach the target exponentially, v(t) = target + (v(now) - target)
\* * e^(-(t - now)/ramp).  The model follows the bypass gain, which
\* updateSettings sends to 1.0 when bypassEffects is set and to 0 when it is
\* cleared, in steps of a tenth of the time constant.

\* const ramp = 0.05, in milliseconds.
Ramp == 50

\* One step of audio time, in milliseconds.
Tick == Ramp \div 10

\* 1.0 in millionths.
One == 1000000

\* A residual decaying twice as fast: e^(-2/10) = 0.818731 per tick.
DecayHalfRamp(r) == (r * 818) \div 1000 + (r * 731) \div 1000000

\* The residual one tick later: e^(-1/10) = 0.904837 per tick, rounded down
\* (the product is split to stay within 32 bits).  Over MaxTicks ticks the
\* rounding loses less than 25 millionths.
Decay(r) == (r * 904) \div 1000 + (r * 837) \div 1000000

\* a * r / One for 0 <= a <= One, split to stay within 32 bits.
Mul(a, r) == ((a \div 1000) * r) \div 1000 + ((a % 1000) * r) \div One

\* The gain's value when the residual is r.
Smoothed(goal, start, r) ==
  IF goal >= start THEN goal - Mul(goal - start, r)
  ELSE goal + Mul(start - goal, r)

\* updateSettings after bypassEffects changed: setTargetAtTime(1.0 or 0, now,
\* ramp) on the bypass gain.
SmoothSetTarget ==
  /\ smoothSteps < MaxSteps
  /\ smoothTarget' = IF smoothTarget = 0 THEN One ELSE 0
  /\ smoothStart' = smoothValue
  /\ smoothTicks' = 0
  /\ smoothResidual' = One
  /\ smoothPrev' = smoothValue
  /\ smoothSteps' = smoothSteps + 1
  /\ UNCHANGED <<liveVars, renderVars, jobVars, lfoVars, graphVars, wavVars, kernelVars,
                 tankVars, lineVars, appVars, smoothValue>>

\* A tenth of the time constant of audio time passes.
SmoothTick ==
  /\ smoothSteps > 0
  /\ smoothTicks < MaxTicks
  /\ smoothTicks' = smoothTicks + 1
  /\ smoothResidual' = Decay(smoothResidual)
  /\ smoothPrev' = smoothValue
  /\ smoothValue' = Smoothed(smoothTarget, smoothStart, Decay(smoothResidual))
  /\ UNCHANGED <<liveVars, renderVars, jobVars, lfoVars, graphVars, wavVars, kernelVars,
                 tankVars, lineVars, appVars, smoothTarget, smoothStart, smoothSteps>>

InitSmooth ==
  /\ EngineInit
  /\ JobIdle
  /\ LfoIdle
  /\ LineIdle
  /\ TankIdle
  /\ GraphIdle
  /\ WavIdle
  /\ KernelIdle
  /\ AppIdle
  /\ SmoothIdle

NextSmooth ==
  \/ SmoothSetTarget
  \/ SmoothTick

SpecSmooth == InitSmooth /\ [][NextSmooth]_vars

\* The gain is on its way from 0 to 1.0.
StepZeroToOne == smoothSteps > 0 /\ smoothStart = 0 /\ smoothTarget = One

\* C18 as stated: after a step of the target from 0 to 1 with a time
\* constant of 50 ms the value never decreases, never exceeds the target,
\* and exceeds 0.99 only once five time constants (250 ms) have elapsed.
C18_SmoothingAsStated ==
  StepZeroToOne =>
    /\ smoothPrev <= smoothValue
    /\ smoothValue <= smoothTarget
    /\ (smoothValue * 100 > 99 * One => smoothTicks * Tick >= 5 * Ramp)

\* C18, amended: after a step of the target from 0 to 1 with a time constant
\* of 50 ms the value never decreases, never exceeds the target, and exceeds
\* 0.99 only once 4.6 time constants (230 ms) have elapsed.
C18_Smoothing ==
  StepZeroToOne =>
    /\ smoothPrev <= smoothValue
    /\ smoothValue <= smoothTarget
    /\ (smoothValue * 100 > 99 * One => smoothTicks * Tick * 10 >= 46 * Ramp)

\* 235 ms after the step the value is above 0.99 and below the target.
C18_Witness ==
  /\ StepZeroToOne
  /\ smoothTicks * Tick = 235
  /\ smoothValue * 100 > 99 * One
  /\ smoothValue < smoothTarget
  /\ smoothPrev < smoothValue

----------------------------------------------------------------------------
\* Feedback gains of the kernel's delay lines.  A gain 10^(-e/rt60) is kept
\* as its exponent e = num/den (rt60 in seconds), so gains are compared
\* exactly.

\* The variants a revision's kernel holds.
Variants ==
  IF build = "multi" THEN {"lexicon", "bricasti", "tcelectronic"}
  ELSE {"fdn4"}

\* Math.floor(l * (fs / base))
ScaledLength(l, fs, base) == (l * fs) \div base

\* The lengths of the delay lines a variant reads and writes, in samples.
\* The bricasti lines are shortened or stretched by briSize:
\* Math.floor(briBase[j] * briSize).
DelayLengths(v, fs, p) ==
  CASE v = "fdn4" ->
         { ScaledLength(l, fs, 48000) : l \in {1331, 1693, 2011, 2381} }
    [] v = "lexicon" ->
         { ScaledLength(l, fs, 44100) : l \in {1487, 1877, 2237, 2593} }
    [] v = "bricasti" ->
         { (ScaledLength(l, fs, 44100) * p.size) \div 100 :
             l \in {1116, 1356, 1422, 1610, 1131, 1372, 1438, 1625} }
    [] v = "tcelectronic" ->
         { ScaledLength(l, fs, 44100) :
             l \in {1116, 1356, 1422, 1610, 1850, 1990, 2251, 2393} }

\* The exponent of the gain the kernel derives from rt60 for a line of
\* length len: Math.pow(10, (-3 * size) / (rt60 * fs)) in the four-line
\* network; gLex = 10^(-3 / (rt60 * 1.5)), gBri = 10^(-3 / (rt60 * 0.85))
\* and gTc = 10^(-3 / (rt60 * 1.8)) in the three variants.
FeedbackExponent(v, len, fs) ==
  CASE v = "fdn4"         -> [num |-> 3 * len, den |-> fs]
    [] v = "lexicon"      -> [num |-> 30, den |-> 15]
    [] v = "bricasti"     -> [num |-> 300, den |-> 85]
    [] v = "tcelectronic" -> [num |-> 30, den |-> 18]

\* 0 < 10^(-e/rt60) < 1 in double precision: the exponent is positive and
\* far from the underflow at 10^-323 (rt60 in hundredths of a second).
InUnitInterval(e, rt60) ==
  /\ e.num > 0
  /\ e.den > 0
  /\ rt60 > 0
  /\ (e.num * 100) \div e.den < 300 * rt60

\* C19: for every rt60 in [0.1, 10] the kernel works with and every delay
\* line of every variant, the line's feedback gain is 10^(-3 L/(rt60 fs)) for
\* its length L and lies strictly between 0 and 1.
C19_FeedbackGain ==
  (kernelVia # "none" /\ kernelParams.rt60 >= 10 /\ kernelParams.rt60 <= 1000) =>
    \A v \in Variants :
      \A len \in DelayLengths(v, kernelFs, kernelParams) :
        LET e == FeedbackExponent(v, len, kernelFs) IN
          /\ e.num * kernelFs = 3 * len * e.den
          /\ InUnitInterval(e, kernelParams.rt60)

----------------------------------------------------------------------------
\* The running kernel over long streams with switches of the variant.  Audio
\* time advances in runs of 2^28 samples of bounded input, so the 32-bit
\* pointers of the bricasti variant keep their width: 2^31 samples are 8
\* runs.

\* 2^31 samples, in runs.
Int32Runs == 8

\* The value an Int32Array element takes when x is stored in it.
ToInt32(x) == ((x + Int32Runs) % (2 * Int32Runs)) - Int32Runs

\* The variant process() runs now.
TankVariant == ActiveVariant([mode |-> tankMode])

\* updateSettings with another algoMode: mode.setValueAtTime(..., now).  The
\* variant left keeps its buffers and pointers as they are.
TankSwitch ==
  /\ build = "multi"
  /\ \E a \in AlgoModes :
       /\ ModeIndex(a) # tankMode
       /\ tankMode' = ModeIndex(a)
  /\ UNCHANGED <<liveVars, renderVars, jobVars, lfoVars, lineVars, graphVars, wavVars, kernelVars, appVars,
                 smoothVars, briPtr, tankHeld, tankOut>>

\* process() over one run of bounded input.  The lexicon, tcelectronic and
\* four-line networks advance their pointers modulo the line length.  The
\* bricasti combs index with briPtrs[j] % len and advance with briPtrs[j]++,
\* which is never reduced: once the Int32 pointer has wrapped to a negative
\* value the index is negative, the read gives undefined and the sums are
\* NaN; the write to the negative index is dropped, so the buffers stay as
\* they were.
TankProcess ==
  /\ tankHeld' = tankHeld \cup {TankVariant}
  /\ IF TankVariant = "bricasti"
       THEN /\ tankOut' = IF briPtr < 0 THEN "nan" ELSE "finite"
            /\ briPtr' = ToInt32(briPtr + 1)
       ELSE /\ tankOut' = "finite"
            /\ briPtr' = briPtr
  /\ UNCHANGED <<liveVars, renderVars, jobVars, lfoVars, lineVars, graphVars, wavVars, kernelVars, appVars,
                 smoothVars, tankMode>>

InitTank ==
  /\ EngineInit
  /\ JobIdle
  /\ LfoIdle
  /\ LineIdle
  /\ GraphIdle
  /\ WavIdle
  /\ KernelIdle
  /\ AppIdle
  /\ SmoothIdle
  /\ TankIdle

NextTank ==
  \/ TankSwitch
  \/ TankProcess

SpecTank == InitTank /\ [][NextTank]_vars

\* C20: whatever bounded input the kernel has processed and however the
\* variant was switched in between, the kernel's output is finite.
C20_OutputFinite == tankOut # "nan"

----------------------------------------------------------------------------
\* The kernel sample by sample, with delay lines of reduced length: every
\* variant has two lines, of BaseLen and BaseLen + 1 samples, and the
\* bricasti combs have buffers of six times their base length.

\* Math.floor(this.briBaseL[j] * briSize)
CombLen(j, size) == (LineLen(j) * size) \div 100

\* The index process() uses on line j of variant v when the stored cursor is
\* ptr: this.briPtrsL[j] % lenL for a bricasti comb (NaN when lenL is 0), the
\* stored cursor itself otherwise.
IndexUsed(v, j, ptr, size) ==
  IF v = "bricasti"
    THEN IF CombLen(j, size) = 0 THEN NaN ELSE ptr % CombLen(j, size)
    ELSE ptr

\* The stored cursor of line j of variant v after one sample:
\* this.briPtrsL[j]++ for a bricasti comb, (ptr + 1) % length otherwise.
NextPtr(v, j, ptr) ==
  IF v = "bricasti" THEN ptr + 1 ELSE (ptr + 1) % LineLen(j)

\* A kernel that advances every variant on every sample.
AdvancedAll(mode) == Variants

\* The variants whose branch of process() runs for a sample.
Advanced(mode) == {ActiveVariant([mode |-> mode])}

\* updateSettings with another algoMode: mode.setValueAtTime(..., now).
LineSwitch ==
  /\ build = "multi"
  /\ \E a \in AlgoModes :
       /\ ModeIndex(a) # lineMode
       /\ lineMode' = ModeIndex(a)
  /\ UNCHANGED <<liveVars, renderVars, jobVars, lfoVars, graphVars, wavVars, kernelVars, appVars,
                 smoothVars, tankVars, lineSize, lineN, linePtrs, lineWrites>>

\* updateSettings with another briSize, once it has settled.
LineSetSize ==
  /\ build = "multi"
  /\ \E z \in SizeValues :
       /\ z # lineSize
       /\ lineSize' = z
  /\ UNCHANGED <<liveVars, renderVars, jobVars, lfoVars, graphVars, wavVars, kernelVars, appVars,
                 smoothVars, tankVars, lineMode, lineN, linePtrs, lineWrites>>

\* process() handles one sample: the branch of the mode reads and writes its
\* lines and advances their cursors.
LineProcess ==
  /\ lineN < MaxLineSamples
  /\ lineN' = lineN + 1
  /\ linePtrs' =
       [v \in AllVariants |->
          IF v \in Advanced(lineMode)
            THEN [j \in Lines |-> NextPtr(v, j, linePtrs[v][j])]
            ELSE linePtrs[v]]
  /\ lineWrites' =
       [v \in AllVariants |->
          IF v \in Advanced(lineMode) THEN lineWrites[v] + 1
          ELSE lineWrites[v]]
  /\ UNCHANGED <<liveVars, renderVars, jobVars, lfoVars, graphVars, wavVars, kernelVars, appVars,
                 smoothVars, tankVars, lineMode, lineSize>>

InitLines ==
  /\ EngineInit
  /\ JobIdle
  /\ LfoIdle
  /\ GraphIdle
  /\ WavIdle
  /\ KernelIdle
  /\ AppIdle
  /\ SmoothIdle
  /\ TankIdle
  /\ LineIdle

NextLines ==
  \/ LineSwitch
  \/ LineSetSize
  \/ LineProcess

SpecLines == InitLines /\ [][NextLines]_vars

\* C21: after any sequence of samples, whatever the mode and the size were
\* set to in between, the index used on every delay line of every variant is
\* an integer in [0, length) of the line's buffer.
C21_CursorInRange ==
  \A v \in Variants, j \in Lines :
    LET i == IndexUsed(v, j, linePtrs[v][j], lineSize) IN
      /\ i # NaN
      /\ i >= 0
      /\ i < BufferLen(v, j)

\* C22: a sample advances the cursors and buffers of the variant the mode
\* selects and of no other variant, and a change of mode changes no cursor
\* and no buffer.
C22_OneVariantAdvances ==
  [][/\ LineProcess =>
          \A v \in AllVariants :
            IF v = ActiveVariant([mode |-> lineMode])
              THEN lineWrites'[v] = lineWrites[v] + 1
              ELSE /\ lineWrites'[v] = lineWrites[v]
                   /\ linePtrs'[v] = linePtrs[v]
     /\ LineSwitch => (linePtrs' = linePtrs /\ lineWrites' = lineWrites)]_vars

\* The kernel has run the lexicon variant, was switched to bricasti and has
\* run it, the lexicon cursors standing where they were left.
C22_Witness ==
  /\ build = "multi"
  /\ lineMode = 1
  /\ lineWrites["lexicon"] = 1
  /\ lineWrites["bricasti"] = 2
  /\ lineWrites["tcelectronic"] = 0
  /\ linePtrs["lexicon"] = [j \in Lines |-> 1]
  /\ linePtrs["bricasti"] = [j \in Lines |-> 2]

----------------------------------------------------------------------------
\* The pre-delay that every variant reads its input through.

\* parameters.preDelay[0] when the settings are s: clamped to the declared
\* range where the descriptor declares one.
PreDelayParam(s) ==
  IF build = "multi" THEN s.reverbPreDelay
  ELSE ClampTo(s.reverbPreDelay, 0, 100)

\* The length of the pre-delay buffer: new Float32Array(Math.floor(fs)).
PreBufferLen(fs) == fs

\* The read offset process() computes, in samples (pd in hundredths of a
\* second): Math.floor(Math.min(0.9, preDelay) * fs) in the "multi"
\* revision, Math.min(length - 1, Math.floor(preDelaySeconds * fs)) in the
\* other two.
PreSamples(pd, fs) ==
  IF build = "multi"
    THEN ((IF pd > 90 THEN 90 ELSE pd) * fs) \div 100
    ELSE IF (pd * fs) \div 100 > PreBufferLen(fs) - 1
           THEN PreBufferLen(fs) - 1
           ELSE (pd * fs) \div 100

\* (ptr - preSamples + length) % length
PreReadIndex(ptr, pre, len) == (ptr - pre + len) % len

\* C23: the read offset of the pre-delay is
\* min(bufferLength - 1, floor(preDelay * fs)) for the preDelay the kernel
\* receives, and the index read is in [0, bufferLength) and is the slot
\* written that many samples before the current one.
C23_PreDelayOffset ==
  kernelVia # "none" =>
    LET pd  == PreDelayParam(kernelSettings)
        len == PreBufferLen(kernelFs)
        pre == PreSamples(pd, kernelFs)
        wanted == IF (pd * kernelFs) \div 100 > len - 1
                    THEN len - 1 ELSE (pd * kernelFs) \div 100
    IN /\ pre = wanted
       /\ pre >= 0
       /\ \A ptr \in {0, 1, len - 1} :
            /\ PreReadIndex(ptr, pre, len) >= 0
            /\ PreReadIndex(ptr, pre, len) < len
            /\ (PreReadIndex(ptr, pre, len) + pre) % len = ptr

----------------------------------------------------------------------------
\* The lexicon variant and its oscillator, run twice side by side on the same
\* input with different lexSpin and lexWander.  Samples are integers (1.0 is
\* 1024); lfo is in thousandths of a radian, lexSpin in units, lexWander in
\* hundredths; the feedback gain gLex is taken as 1/2.

\* Values of lexSpin and lexWander: 0, the top of the documented range, and
\* beyond it.
SpinValues == {0, 2, 500}
WanderValues == {0, 100}

\* Input samples.
LexInputs == {0, 1024}

\* 100 * sin(x) for x in thousandths of a radian, by Bhaskara's
\* approximation on a half period.
HalfSin(x) == (16 * x * (3142 - x)) \div ((49348000 - 4 * x * (3142 - x)) \div 100)
Sin(x) ==
  IF x % 6284 <= 3142 THEN HalfSin(x % 6284) ELSE 0 - HalfSin((x % 6284) - 3142)

\* A lexicon branch that reads its lines at the modulated offset.
LexReadPtrModulated(ptr, mod, len) == (ptr + mod) % len

\* The cursor the lexicon branch reads line j at: this.lexPtrs[j]; mod is
\* computed and not used.
LexReadPtr(ptr, mod, len) == ptr

\* The lexicon branch for one sample dry, from state st with parameters prm.
LexStep(st, prm, dry) ==
  LET lfo  == st.lfo + prm.spin
      mod  == (Sin(lfo) * prm.wander * 10) \div 10000
      rd   == [j \in LexLines |-> LexReadPtr(st.ptrs[j], mod, LexLen(j)) + 1]
      sum  == st.bufs[1][rd[1]] + st.bufs[2][rd[2]]
                + st.bufs[3][rd[3]] + st.bufs[4][rd[4]]
      mix  == sum \div 4
      bufs == [j \in LexLines |->
                 [st.bufs[j] EXCEPT ![st.ptrs[j] + 1] =
                    (st.bufs[j][rd[j]] - mix) \div 2 + dry]]
      ptrs == [j \in LexLines |-> (st.ptrs[j] + 1) % LexLen(j)]
  IN [lfo  |-> lfo,
      mod  |-> mod,
      ptrs |-> ptrs,
      bufs |-> bufs,
      out  |-> << (bufs[1][ptrs[1] + 1] + bufs[3][ptrs[3] + 1]) \div 2
                    + dry \div 2,
                  (bufs[2][ptrs[2] + 1] + bufs[4][ptrs[4] + 1]) \div 2
                    + dry \div 2 >>]

\* Both kernels process the same sample.
LfoProcess ==
  /\ lfoN < MaxLfoSamples
  /\ lfoN' = lfoN + 1
  /\ \E dry \in LexInputs :
       lfoState' = [r \in Runs |-> LexStep(lfoState[r], lfoParams[r], dry)]
  /\ UNCHANGED <<liveVars, renderVars, jobVars, graphVars, wavVars, kernelVars, appVars,
                 smoothVars, tankVars, lineVars, lfoParams>>

InitLfo ==
  /\ EngineInit
  /\ JobIdle
  /\ build = "multi"
  /\ GraphIdle
  /\ WavIdle
  /\ KernelIdle
  /\ AppIdle
  /\ SmoothIdle
  /\ TankIdle
  /\ LineIdle
  /\ lfoParams \in [Runs -> [spin : SpinValues, wander : WanderValues]]
  /\ lfoState = NoLfoState
  /\ lfoN = 0

NextLfo == LfoProcess

SpecLfo == InitLfo /\ [][NextLfo]_vars

\* C24: two kernels given the same input and the same parameters except
\* lexSpin and lexWander have the same output samples, the same delay-line
\* contents and the same cursors after every sample.
C24_LfoInert ==
  /\ lfoState[1].out = lfoState[2].out
  /\ lfoState[1].bufs = lfoState[2].bufs
  /\ lfoState[1].ptrs = lfoState[2].ptrs

\* The two oscillators stand at different phases and give different
\* modulation depths, one of them of whole samples, while both kernels put
\* out the same non-zero sample.
C24_Witness ==
  /\ lfoN >= 3
  /\ lfoState[1].lfo # lfoState[2].lfo
  /\ lfoState[1].mod >= 1
  /\ lfoState[2].mod = 0
  /\ lfoState[1].out[1] # 0
  /\ lfoState[1].out = lfoState[2].out

----------------------------------------------------------------------------
\* Starts and stops of the control layer, with init() calls that arrive
\* while another init() is in progress.

\* startEngine calls init() while another init() is in progress: init()
\* returns at its guard, before the try block, and startEngine goes on as
\* after a successful init(): updateSettings(settings) and isProcessing.
InitDropped ==
  /\ isInitializing
  /\ UpdateSettings(settings, ctx, graph, target)
  /\ isProcessing' = TRUE
  /\ UNCHANGED <<dspVars, renderVars, build, lifecycle, closeError,
                 bypassEdit, ctx, stream, isInitializing, source, graph,
                 masterValue, safetyTimer, onAutoMuteTriggered, rafPending,
                 openCtxs, openStreams, nextId, initPc, initFile, initSink,
                 closePc, settings, notified, tripped, polled, initOutcome>>

NextStart ==
  \/ InitCall
  \/ InitDropped
  \/ InitCloseDone
  \/ InitSinkDone
  \/ InitModuleDone
  \/ InitFileRead
  \/ InitDecodeDone
  \/ InitCaptureDone
  \/ InitResumeDone
  \/ CloseCall
  \/ CloseDone
  \/ SafetyPoll
  \/ RegisterAutoMute

SpecStart == Init /\ [][NextStart]_vars

\* C25: a safety poll that runs while the post-master tap or the master gain
\* node is absent changes neither the master gain nor its target, raises no
\* notification and does not trip; it ends its loop without requesting the
\* next frame.
C25_GuardedPollInert ==
  [][\A l \in rafPending, p \in Peaks :
       (/\ CheckLevel(l, p)
        /\ (graph["analyserOutput"] = NULL \/ graph["masterGainNode"] = NULL))
       => /\ masterValue' = masterValue
          /\ target' = target
          /\ notified' = notified
          /\ tripped' = tripped
          /\ rafPending' = rafPending \ {l}]_vars

\* close() ran while the first init() was suspended, init() scheduled its poll
\* loop and close() then removed the nodes: the loop's next frame has run into the
\* guard and the loop is gone, nothing muted, nothing notified.
C25_Witness ==
  /\ build = "safety"
  /\ nextId = 2
  /\ lifecycle = "active"
  /\ initPc = "idle"
  /\ closePc = "idle"
  /\ initOutcome = "ok"
  /\ graph["analyserOutput"] = NULL
  /\ safetyTimer # NULL
  /\ rafPending = {}
  /\ ~tripped
  /\ notified = 0

----------------------------------------------------------------------------
\* Overlapping renderOffline calls.  tempCtx is a local of each call; the
\* calls interleave at their awaits, beside the live session.

\* The other groups of processor state, which a render leaves alone.
jobFrame ==
  <<liveVars, renderVars, graphVars, wavVars, kernelVars, appVars,
    smoothVars, tankVars, lineVars, lfoVars>>

\* A decode context the engine keeps in one place and reuses.
TempCtxCached(n) == 0 - 1

\* const tempCtx = new AudioContext(...): the n-th temporary context, an
\* object of its own.
TempCtx(n) == 0 - n

\* renderOffline is called; it awaits file.arrayBuffer().
JobCall(j) ==
  /\ jobPc[j] = "idle"
  /\ jobCalls < MaxRenders
  /\ jobCalls' = jobCalls + 1
  /\ jobPc' = [jobPc EXCEPT ![j] = "read"]
  /\ UNCHANGED <<jobFrame, jobTemp, tempOpen, tempCount>>

\* The call returns or rejects: its locals are gone.
JobReturn(j) ==
  /\ jobPc' = [jobPc EXCEPT ![j] = "idle"]
  /\ jobTemp' = [jobTemp EXCEPT ![j] = NULL]

\* The file is read: tempCtx is created and decodeAudioData is awaited.
JobRead(j) ==
  /\ jobPc[j] = "read"
  /\ tempCount' = tempCount + 1
  /\ jobTemp' = [jobTemp EXCEPT ![j] = TempCtx(tempCount + 1)]
  /\ tempOpen' = tempOpen \cup {TempCtx(tempCount + 1)}
  /\ jobPc' = [jobPc EXCEPT ![j] = "decode"]
  /\ UNCHANGED <<jobFrame, jobCalls>>

\* decodeAudioData settles: on success tempCtx.close() is awaited; on failure
\* the call rejects there.
JobDecodeDone(j) ==
  /\ jobPc[j] = "decode"
  /\ \E ok \in BOOLEAN :
       IF ok THEN /\ jobPc' = [jobPc EXCEPT ![j] = "closeTemp"]
                  /\ UNCHANGED jobTemp
             ELSE JobReturn(j)
  /\ UNCHANGED <<jobFrame, tempOpen, tempCount, jobCalls>>

\* tempCtx.close() settles; the offline context is made, addModule and then
\* startRendering are awaited.
JobTempClosed(j) ==
  /\ jobPc[j] = "closeTemp"
  /\ tempOpen' = tempOpen \ {jobTemp[j]}
  /\ jobPc' = [jobPc EXCEPT ![j] = "render"]
  /\ UNCHANGED <<jobFrame, jobTemp, tempCount, jobCalls>>

\* addModule rejects, or startRendering settles: the call returns or rejects.
JobDone(j) ==
  /\ jobPc[j] = "render"
  /\ JobReturn(j)
  /\ UNCHANGED <<jobFrame, tempOpen, tempCount, jobCalls>>

NextJobs ==
  \/ \E j \in Jobs : JobCall(j)
  \/ \E j \in Jobs : JobRead(j)
  \/ \E j \in Jobs : JobDecodeDone(j)
  \/ \E j \in Jobs : JobTempClosed(j)
  \/ \E j \in Jobs : JobDone(j)
  \/ InitCall
  \/ InitCloseDone
  \/ InitSinkDone
  \/ InitModuleDone
  \/ InitFileRead
  \/ InitDecodeDone
  \/ InitCaptureDone
  \/ InitResumeDone
  \/ CloseCall
  \/ CloseDone

SpecJobs == Init /\ [][NextJobs]_vars

\* A renderOffline call that holds its temporary context for decoding.
Decoding(j) == jobPc[j] \in {"decode", "closeTemp"}

\* C26: a render decodes on a temporary context that is neither the live
\* session's context nor the context of any other render in flight, the
\* context is open while the decode runs, and it is closed before the render
\* goes on to its offline context.
C26_DecodeContextPrivate ==
  \A j \in Jobs :
    /\ Decoding(j) =>
         /\ jobTemp[j] # NULL
         /\ jobTemp[j] # ctx
         /\ jobTemp[j] \notin openCtxs
         /\ \A k \in Jobs \ {j} : jobPc[k] # "idle" => jobTemp[k] # jobTemp[j]
    /\ jobPc[j] = "decode" => jobTemp[j] \in tempOpen
    /\ jobPc[j] = "render" => jobTemp[j] \notin tempOpen

\* Two renders overlap beside a running live session: one has closed its
\* context and renders, the other is still decoding.
C26_Witness ==
  /\ Running
  /\ jobPc[1] = "render"
  /\ jobPc[2] = "decode"

----------------------------------------------------------------------------
----------------------------------------------------------------------------
\* C28: once init() and a close() that ran while it was suspended have both
\* finished and the engine holds no context, no capture stream and no audio
\* context is left open.
C28_CloseDuringInitReleases ==
  (initPc = "idle" /\ closePc = "idle" /\ ctx = NULL) =>
    /\ openStreams = {}
    /\ openCtxs = {}

----------------------------------------------------------------------------
\* C29: whenever no init() and no close() is in flight, isProcessing is set
\* only if the engine holds a complete graph on a live context.
C29_ProcessingMeansGraph ==
  (initPc = "idle" /\ closePc = "idle" /\ isProcessing) =>
    /\ Running
    /\ ctx \in openCtxs

----------------------------------------------------------------------------
\* C30: at most one safety poll loop is scheduled at any time; once close()
\* has finished no loop is scheduled; and once the next init() has built its
\* graph the only loop scheduled is that session's own.
C30_OnePollLoop ==
  /\ Cardinality(rafPending) <= 1
  /\ (initPc = "idle" /\ closePc = "idle" /\ ctx = NULL) => rafPending = {}
  /\ (initPc = "idle" /\ initOutcome = "ok" /\ ctx # NULL) =>
       rafPending \subseteq {ctx}

====
